---- MODULE Spec2Model ----
(***************************************************************************)
(* A model of the Google Workspace MCP server (src/src/index.ts): the      *)
(* call-tool dispatcher, the argument validators and the composite Drive   *)
(* handlers (batch move, batch export, recursive folder copy).             *)
(*                                                                         *)
(* One action is one suspension point of the handler: the remote call it   *)
(* awaits together with the local code that runs until the next remote     *)
(* call is issued.  The remote service is a collaborator: each remote call *)
(* either fails (any call may fail: network, rate limit, not found) or     *)
(* succeeds with the effect the Drive API documents for it.                *)
(***************************************************************************)
EXTENDS Integers, Sequences, FiniteSets, TLC

VARIABLES
    request,    \* the tool call being served: [name, arguments]
    pc,         \* position of the invocation: "call", the awaited remote call, or "done"
    response,   \* the response envelope returned to the caller (NoResponse before)
    drive,      \* the remote store: drive[i] is the file or folder with id i
    calls,      \* every remote call issued so far, in order, with its outcome
    batch,      \* locals of handleDriveBatchMove / handleDriveBatchExport
    stack,      \* activation records of the recursive handler (handleDriveCopyFolder,
                \* listFilesRecursive), innermost last
    local,      \* the validated request and the locals of the other handlers
    auth,       \* this.auth: the credentials of the shared OAuth2 client
    served,     \* number of tool calls the server has answered
    second,     \* a second invocation of the call-tool callback, when one is in flight
    a1Range,    \* the argument of a call of a1ToGridRange, character by character
    gridRange,  \* what that call returned or threw
    tools       \* the names of the listing the client has asked for, if it has

vars == <<request, pc, response, drive, calls, batch, stack, local, auth, served, second,
          a1Range, gridRange, tools>>

----------------------------------------------------------------------------
(* Bounds of the model.                                                    *)

\* longest fileIds array of a batch call
MaxIds == 3
\* number of files and folders below the source folder of a copy
MaxNodes == 3
\* number of remote calls that may fail during one folder copy
MaxFailures == 2
\* number of nested activations of the folder copy that are followed
MaxDepth == 5
\* number of tool calls that follow the first one in a session
MaxCalls == 2
\* largest column index of an A1 range given to a1ToGridRange (27 is "AB")
MaxCol == 27
\* largest row number of an A1 range given to a1ToGridRange
MaxRow == 10

----------------------------------------------------------------------------
(* JavaScript values of the untyped argument object.                       *)

Undef == [t |-> "undefined", v |-> 0]
Str(s) == [t |-> "string", v |-> s]
Num(n) == [t |-> "number", v |-> n]
Arr(a) == [t |-> "array", v |-> a]
Bool(b) == [t |-> "boolean", v |-> b]

\* JavaScript truthiness, as used by `!x` and `x || y`
Truthy(x) ==
    CASE x.t = "undefined" -> FALSE
      [] x.t = "string" -> x.v # ""
      [] x.t = "number" -> x.v # 0
      [] x.t = "boolean" -> x.v
      [] OTHER -> TRUE

IsString(x) == x.t = "string"

IsArray(x) == x.t = "array"

\* `a || b`
OrElse(a, b) == IF Truthy(a) THEN a ELSE b

IsNumber(x) == x.t = "number"

IsObject(x) == x.t \in {"object", "array"}

\* `x || undefined`
OrUndefined(x) == IF Truthy(x) THEN x ELSE Undef

\* the strings of the model that read as a number
NumericStrings == {"3"}

\* ToNumber, as the comparisons `<` and `>` apply it to an operand that is
\* no number; nan: the result is NaN
ToNumber(x) ==
    CASE x.t = "number" -> [nan |-> FALSE, n |-> x.v]
      [] x.t = "boolean" -> [nan |-> FALSE, n |-> IF x.v THEN 1 ELSE 0]
      [] x.t = "string" /\ x.v = "" -> [nan |-> FALSE, n |-> 0]
      [] x.t = "string" /\ x.v \in NumericStrings -> [nan |-> FALSE, n |-> 3]
      [] x.t = "array" /\ x.v = <<>> -> [nan |-> FALSE, n |-> 0]
      [] OTHER -> [nan |-> TRUE, n |-> 0]

\* `a < b`: false when an operand is NaN
Less(a, b) == ~ToNumber(a).nan /\ ~ToNumber(b).nan /\ ToNumber(a).n < ToNumber(b).n

----------------------------------------------------------------------------
(* Sequences.                                                              *)

Range(s) == {s[i] : i \in 1..Len(s)}

SeqsUpTo(S, n) == UNION {[1..k -> S] : k \in 0..n}

RECURSIVE SumSeq(_)
SumSeq(s) == IF s = <<>> THEN 0 ELSE Head(s) + SumSeq(Tail(s))

\* number of positions of s that hold x
Occurrences(s, x) == Cardinality({i \in 1..Len(s) : s[i] = x})

----------------------------------------------------------------------------
(* The remote store: the files and folders of the drive, in the order the *)
(* service lists them.  A node is [id, name, mimeType, parents, trashed];  *)
(* parent RootId is the root of the drive.  An id no node carries does not *)
(* exist: a remote call on it fails.                                       *)

FolderMime == "application/vnd.google-apps.folder"
FileMime == "text/plain"
RootId == "root"

Node(id, name, mime, parents, trashed) ==
    [id |-> id, name |-> name, mimeType |-> mime, parents |-> parents, trashed |-> trashed]

Exists(d, id) == \E i \in 1..Len(d) : d[i].id = id

Lookup(d, id) == d[CHOOSE i \in 1..Len(d) : d[i].id = id]

NoResponse == [isError |-> FALSE, text |-> "none"]

\* one entry of the log of remote calls: the call, its outcome, the id the
\* service returned, the depth of the activation that issued it, and the
\* invocation of the request handler it belongs to
Call(api, fileId, outcome, body, result) ==
    [api |-> api, fileId |-> fileId, outcome |-> outcome, body |-> body, result |-> result,
     depth |-> Len(stack), invocation |-> 1]

NoBody == [name |-> "", parents |-> <<>>]

\* no handler entered: nothing validated, no locals
NoGot == [id |-> "", mimeType |-> "", parents |-> <<>>, data |-> <<>>]

NoLocal == [args |-> <<>>, step |-> 0, got |-> NoGot]

\* the credentials the constructor sets from GOOGLE_REFRESH_TOKEN
EnvCredentials == [refresh_token |-> "env"]

\* no second invocation of the request handler in flight
NoSecond ==
    [pc |-> "idle", request |-> [name |-> "", arguments |-> Undef],
     local |-> NoLocal, response |-> NoResponse]

----------------------------------------------------------------------------
(* Argument validators.  A validator returns the typed request or throws;  *)
(* Ok/Err stand for the two ways out.  The argument object is Undef (no    *)
(* object) or Obj(r), r a record of JavaScript values; a field the caller  *)
(* left out is Undef.                                                      *)

Obj(r) == [t |-> "object", v |-> r]

Ok(v) == [ok |-> TRUE, value |-> v, message |-> ""]
Err(m) == [ok |-> FALSE, value |-> <<>>, message |-> m]

\* `!args || typeof args !== 'object'`
NotObject(args) == ~Truthy(args) \/ args.t # "object"

ExportFormats == <<"pdf", "docx", "xlsx", "pptx">>

validateBatchMoveArgs(args) ==
    IF NotObject(args) THEN Err("Invalid arguments: expected object")
    ELSE IF ~IsArray(args.v.fileIds) \/ Len(args.v.fileIds.v) = 0
         THEN Err("Invalid fileIds: expected non-empty array")
    ELSE IF ~Truthy(args.v.targetFolderId) \/ ~IsString(args.v.targetFolderId)
         THEN Err("Invalid targetFolderId: expected non-empty string")
    ELSE Ok([fileIds |-> args.v.fileIds.v, targetFolderId |-> args.v.targetFolderId.v])

validateBatchExportArgs(args) ==
    IF NotObject(args) THEN Err("Invalid arguments: expected object")
    ELSE IF ~IsArray(args.v.fileIds) \/ Len(args.v.fileIds.v) = 0
         THEN Err("Invalid fileIds: expected non-empty array")
    ELSE IF ~Truthy(args.v.format)
            \/ ~(IsString(args.v.format) /\ args.v.format.v \in Range(ExportFormats))
         THEN Err("Invalid format: expected one of: pdf, docx, xlsx, pptx")
    ELSE Ok([fileIds |-> args.v.fileIds.v, format |-> args.v.format.v])

validateCopyFolderArgs(args) ==
    IF NotObject(args) THEN Err("Invalid arguments: expected object")
    ELSE IF ~Truthy(args.v.sourceFolderId) \/ ~IsString(args.v.sourceFolderId)
         THEN Err("Invalid sourceFolderId: expected non-empty string")
    ELSE IF Truthy(args.v.targetParentFolderId) /\ ~IsString(args.v.targetParentFolderId)
         THEN Err("Invalid targetParentFolderId: expected string")
    ELSE IF Truthy(args.v.newName) /\ ~IsString(args.v.newName)
         THEN Err("Invalid newName: expected string")
    ELSE Ok([sourceFolderId |-> args.v.sourceFolderId.v,
             targetParentFolderId |-> args.v.targetParentFolderId,
             newName |-> args.v.newName])

\* `!args.f || typeof args.f !== 'string'`
NotNonEmptyString(x) == ~Truthy(x) \/ ~IsString(x)

\* the first element of updates the map callback throws for (0 when none)
FirstBadUpdate(updates) ==
    LET bad == {i \in 1..Len(updates) :
                  \/ NotObject(updates[i])
                  \/ NotNonEmptyString(updates[i].v.range)
                  \/ ~IsArray(updates[i].v.values)}
    IN  IF bad = {} THEN 0 ELSE CHOOSE i \in bad : \A j \in bad : i <= j

validateBatchUpdateArgs(args) ==
    IF NotObject(args) THEN Err("Invalid arguments: expected object")
    ELSE IF NotNonEmptyString(args.v.spreadsheetId)
         THEN Err("Invalid spreadsheetId: expected non-empty string")
    ELSE IF ~IsArray(args.v.updates) THEN Err("Invalid updates: expected array")
    ELSE LET updates == args.v.updates.v
             i == FirstBadUpdate(updates)
             index == ToString(i - 1)
         IN  IF i = 0
             THEN Ok([spreadsheetId |-> args.v.spreadsheetId, updates |-> args.v.updates])
             ELSE IF NotObject(updates[i])
                  THEN Err("Invalid update at index " \o index \o ": expected object")
             ELSE IF NotNonEmptyString(updates[i].v.range)
                  THEN Err("Invalid range at index " \o index \o ": expected non-empty string")
             ELSE Err("Invalid values at index " \o index \o ": expected 2D array")

validateCreateArgs(args) ==
    IF NotObject(args) THEN Err("Invalid arguments: expected object")
    ELSE IF NotNonEmptyString(args.v.title)
         THEN Err("Invalid title: expected non-empty string")
    ELSE IF Truthy(args.v.parentFolderId) /\ ~IsString(args.v.parentFolderId)
         THEN Err("Invalid parentFolderId: expected string")
    ELSE Ok([title |-> args.v.title,
             sheetTitle |-> OrElse(args.v.sheetTitle, Str("Sheet1")),
             data |-> OrElse(args.v.data, Arr(<<>>)),
             parentFolderId |-> args.v.parentFolderId])

validateCreateDocArgs(args) ==
    IF NotObject(args) THEN Err("Invalid arguments: expected object")
    ELSE IF NotNonEmptyString(args.v.title)
         THEN Err("Invalid title: expected non-empty string")
    ELSE IF Truthy(args.v.parentFolderId) /\ ~IsString(args.v.parentFolderId)
         THEN Err("Invalid parentFolderId: expected string")
    ELSE Ok([title |-> args.v.title,
             content |-> OrElse(args.v.content, Str("")),
             parentFolderId |-> args.v.parentFolderId])

validateInsertTextArgs(args) ==
    IF NotObject(args) THEN Err("Invalid arguments: expected object")
    ELSE IF NotNonEmptyString(args.v.documentId)
         THEN Err("Invalid documentId: expected non-empty string")
    ELSE IF NotNonEmptyString(args.v.text)
         THEN Err("Invalid text: expected non-empty string")
    ELSE Ok([documentId |-> args.v.documentId,
             text |-> args.v.text,
             index |-> OrUndefined(args.v.index)])

validateReplaceTextArgs(args) ==
    IF NotObject(args) THEN Err("Invalid arguments: expected object")
    ELSE IF NotNonEmptyString(args.v.documentId)
         THEN Err("Invalid documentId: expected non-empty string")
    ELSE IF NotNonEmptyString(args.v.find)
         THEN Err("Invalid find: expected non-empty string")
    ELSE IF ~IsString(args.v.replace) THEN Err("Invalid replace: expected string")
    ELSE Ok([documentId |-> args.v.documentId, find |-> args.v.find,
             replace |-> args.v.replace])

validateFormatTextArgs(args) ==
    IF NotObject(args) THEN Err("Invalid arguments: expected object")
    ELSE IF NotNonEmptyString(args.v.documentId)
         THEN Err("Invalid documentId: expected non-empty string")
    ELSE IF ~IsNumber(args.v.startIndex) \/ args.v.startIndex.v < 0
         THEN Err("Invalid startIndex: expected non-negative number")
    ELSE IF ~IsNumber(args.v.endIndex) \/ args.v.endIndex.v <= args.v.startIndex.v
         THEN Err("Invalid endIndex: expected number greater than startIndex")
    ELSE IF ~Truthy(args.v.format) \/ ~IsObject(args.v.format)
         THEN Err("Invalid format: expected object")
    ELSE Ok([documentId |-> args.v.documentId, startIndex |-> args.v.startIndex,
             endIndex |-> args.v.endIndex, format |-> args.v.format])

validateAppendArgs(args) ==
    IF NotObject(args) THEN Err("Invalid arguments: expected object")
    ELSE IF NotNonEmptyString(args.v.spreadsheetId)
         THEN Err("Invalid spreadsheetId: expected non-empty string")
    ELSE IF NotNonEmptyString(args.v.range)
         THEN Err("Invalid range: expected non-empty string")
    ELSE IF ~IsArray(args.v.values) THEN Err("Invalid values: expected 2D array")
    ELSE Ok([spreadsheetId |-> args.v.spreadsheetId, range |-> args.v.range,
             values |-> args.v.values])

validateFormatArgs(args) ==
    IF NotObject(args) THEN Err("Invalid arguments: expected object")
    ELSE IF NotNonEmptyString(args.v.spreadsheetId)
         THEN Err("Invalid spreadsheetId: expected non-empty string")
    ELSE IF ~IsArray(args.v.requests) THEN Err("Invalid requests: expected array")
    ELSE Ok([spreadsheetId |-> args.v.spreadsheetId, requests |-> args.v.requests])

validateDriveSearchArgs(args) ==
    IF NotObject(args) THEN Err("Invalid arguments: expected object")
    ELSE IF NotNonEmptyString(args.v.query)
         THEN Err("Invalid query: expected non-empty string")
    ELSE Ok([query |-> args.v.query,
             pageSize |-> OrElse(args.v.pageSize, Num(10)),
             pageToken |-> OrUndefined(args.v.pageToken)])

validateDriveReadArgs(args) ==
    IF NotObject(args) THEN Err("Invalid arguments: expected object")
    ELSE IF NotNonEmptyString(args.v.fileId)
         THEN Err("Invalid fileId: expected non-empty string")
    ELSE Ok([fileId |-> args.v.fileId])

validateDocumentIdArgs(args) ==
    IF NotObject(args) THEN Err("Invalid arguments: expected object")
    ELSE IF NotNonEmptyString(args.v.documentId)
         THEN Err("Invalid documentId: expected non-empty string")
    ELSE Ok([documentId |-> args.v.documentId])

validateMoveFileArgs(args) ==
    IF NotObject(args) THEN Err("Invalid arguments: expected object")
    ELSE IF NotNonEmptyString(args.v.fileId)
         THEN Err("Invalid fileId: expected non-empty string")
    ELSE IF NotNonEmptyString(args.v.targetFolderId)
         THEN Err("Invalid targetFolderId: expected non-empty string")
    ELSE Ok([fileId |-> args.v.fileId, targetFolderId |-> args.v.targetFolderId])

validateCreateFolderArgs(args) ==
    IF NotObject(args) THEN Err("Invalid arguments: expected object")
    ELSE IF NotNonEmptyString(args.v.name)
         THEN Err("Invalid name: expected non-empty string")
    ELSE IF Truthy(args.v.parentFolderId) /\ ~IsString(args.v.parentFolderId)
         THEN Err("Invalid parentFolderId: expected string")
    ELSE Ok([name |-> args.v.name, parentFolderId |-> args.v.parentFolderId])

\* a content search that defaults to the page size of the plain search
validateSearchContentArgs_SearchDefault(args) ==
    IF NotObject(args) THEN Err("Invalid arguments: expected object")
    ELSE IF NotNonEmptyString(args.v.query)
         THEN Err("Invalid query: expected non-empty string")
    ELSE IF Truthy(args.v.folderId) /\ ~IsString(args.v.folderId)
         THEN Err("Invalid folderId: expected string")
    ELSE IF Truthy(args.v.maxResults) /\ ~IsNumber(args.v.maxResults)
         THEN Err("Invalid maxResults: expected number")
    ELSE Ok([query |-> args.v.query, folderId |-> args.v.folderId,
             maxResults |-> OrElse(args.v.maxResults, Num(10))])

validateSearchContentArgs(args) ==
    IF NotObject(args) THEN Err("Invalid arguments: expected object")
    ELSE IF NotNonEmptyString(args.v.query)
         THEN Err("Invalid query: expected non-empty string")
    ELSE IF Truthy(args.v.folderId) /\ ~IsString(args.v.folderId)
         THEN Err("Invalid folderId: expected string")
    ELSE IF Truthy(args.v.maxResults) /\ ~IsNumber(args.v.maxResults)
         THEN Err("Invalid maxResults: expected number")
    ELSE Ok([query |-> args.v.query, folderId |-> args.v.folderId,
             maxResults |-> OrElse(args.v.maxResults, Num(100))])

validateGetRevisionsArgs(args) ==
    IF NotObject(args) THEN Err("Invalid arguments: expected object")
    ELSE IF NotNonEmptyString(args.v.fileId)
         THEN Err("Invalid fileId: expected non-empty string")
    ELSE IF Truthy(args.v.maxResults) /\ ~IsNumber(args.v.maxResults)
         THEN Err("Invalid maxResults: expected number")
    ELSE Ok([fileId |-> args.v.fileId,
             maxResults |-> OrElse(args.v.maxResults, Num(20))])

validateExportFileArgs(args) ==
    IF NotObject(args) THEN Err("Invalid arguments: expected object")
    ELSE IF NotNonEmptyString(args.v.fileId)
         THEN Err("Invalid fileId: expected non-empty string")
    ELSE IF NotNonEmptyString(args.v.mimeType)
         THEN Err("Invalid mimeType: expected non-empty string")
    ELSE Ok([fileId |-> args.v.fileId, mimeType |-> args.v.mimeType])

validateListPermissionsArgs(args) ==
    IF NotObject(args) THEN Err("Invalid arguments: expected object")
    ELSE IF NotNonEmptyString(args.v.fileId)
         THEN Err("Invalid fileId: expected non-empty string")
    ELSE Ok([fileId |-> args.v.fileId])

\* `(request.params.arguments as any)?.f`
OptionalField(args, f) ==
    IF args.t = "object" /\ f \in DOMAIN args.v THEN args.v[f] ELSE Undef

\* case 'gdocs_set_heading' up to the call of the handler (lines 1157-1165)
validateSetHeading(args) ==
    LET r == validateFormatTextArgs(args)
        headingLevel == OptionalField(args, "headingLevel")
    IN  IF ~r.ok THEN r
        ELSE IF ~Truthy(headingLevel) \/ Less(headingLevel, Num(1))
                  \/ Less(Num(6), headingLevel)
             THEN Err("Invalid headingLevel: expected number between 1 and 6")
        ELSE Ok([documentId |-> r.value.documentId, startIndex |-> r.value.startIndex,
                 endIndex |-> r.value.endIndex, format |-> r.value.format,
                 headingLevel |-> headingLevel])

\* case 'gsheets_set_auth_code' up to the call of the handler (lines 1171-1176)
validateSetAuthCode(args) ==
    LET code == OptionalField(args, "code")
    IN  IF ~Truthy(code) THEN Err("Authorization code is required")
        ELSE Ok([code |-> code])

----------------------------------------------------------------------------
(* a1ToGridRange and columnToIndex.  The text of a range is the sequence   *)
(* of its characters, each a string of length one.                         *)

UpperCase ==
    <<"A", "B", "C", "D", "E", "F", "G", "H", "I", "J", "K", "L", "M",
      "N", "O", "P", "Q", "R", "S", "T", "U", "V", "W", "X", "Y", "Z">>

DecimalDigits == <<"0", "1", "2", "3", "4", "5", "6", "7", "8", "9">>

IndexOf(s, c) == CHOOSE i \in 1..Len(s) : s[i] = c

\* `column.charCodeAt(i)` of an upper-case letter ('A' is 65)
CharCodeAt(column, i) == 64 + IndexOf(UpperCase, column[i])

\* the for loop of columnToIndex from position i with the result so far
RECURSIVE ColumnLoop(_, _, _)
ColumnLoop(column, i, result) ==
    IF i > Len(column) THEN result
    ELSE ColumnLoop(column, i + 1, result * 26 + (CharCodeAt(column, i) - 65 + 1))

\* a loop that reads the last letter only
columnToIndex_LastLetter(column) == ColumnLoop(column, Len(column), 0) - 1

columnToIndex(column) == ColumnLoop(column, 1, 0) - 1

\* parseInt of a string of decimal digits
RECURSIVE ParseDigits(_, _)
ParseDigits(digits, result) ==
    IF digits = <<>> THEN result
    ELSE ParseDigits(Tail(digits), result * 10 + (IndexOf(DecimalDigits, Head(digits)) - 1))

parseInt(digits) == ParseDigits(digits, 0)

\* the number of characters of class from position from on: what [A-Z]+
\* and \d+ consume, being greedy
RECURSIVE Span(_, _, _)
Span(s, from, class) ==
    IF from > Len(s) \/ s[from] \notin class THEN 0
    ELSE 1 + Span(s, from + 1, class)

\* the groups of the match, c1, r1, c2 and r2 being the numbers of characters
\* the four groups consume when each is as long as it can be: every group
\* has a character, a colon stands between the second and the third, and
\* the fourth ends the text; matched = FALSE for null
MatchGroups(s, c1, r1, c2, r2) ==
    LET colon == c1 + r1 + 1 IN
    IF /\ c1 > 0 /\ r1 > 0
       /\ colon <= Len(s) /\ s[colon] = ":"
       /\ c2 > 0 /\ r2 > 0
       /\ colon + c2 + r2 = Len(s)
    THEN [matched |-> TRUE,
          startCol |-> SubSeq(s, 1, c1),
          startRow |-> SubSeq(s, c1 + 1, c1 + r1),
          endCol |-> SubSeq(s, colon + 1, colon + c2),
          endRow |-> SubSeq(s, colon + c2 + 1, Len(s))]
    ELSE [matched |-> FALSE, startCol |-> <<>>, startRow |-> <<>>,
          endCol |-> <<>>, endRow |-> <<>>]

\* the match from the fourth group, the third and the second on
MatchEndRow(s, c1, r1, c2) ==
    MatchGroups(s, c1, r1, c2, Span(s, c1 + r1 + c2 + 2, Range(DecimalDigits)))

MatchEndCol(s, c1, r1) == MatchEndRow(s, c1, r1, Span(s, c1 + r1 + 2, Range(UpperCase)))

MatchStartRow(s, c1) == MatchEndCol(s, c1, Span(s, c1 + 1, Range(DecimalDigits)))

\* `a1Range.match(/^([A-Z]+)(\d+):([A-Z]+)(\d+)$/)`
Match(s) == MatchStartRow(s, Span(s, 1, Range(UpperCase)))

\* the text of a sequence of characters
RECURSIVE Text(_)
Text(s) == IF s = <<>> THEN "" ELSE Head(s) \o Text(Tail(s))

\* a1ToGridRange has not been called
NoGridRange == Err("")

\* what a1ToGridRange does with the result of the match
GridRangeOfMatch(a1, match) ==
    IF ~match.matched THEN Err("Invalid A1 range: " \o Text(a1))
    ELSE Ok([startRowIndex |-> parseInt(match.startRow) - 1,
             endRowIndex |-> parseInt(match.endRow),
             startColumnIndex |-> columnToIndex(match.startCol),
             endColumnIndex |-> columnToIndex(match.endCol) + 1])

a1ToGridRange(a1) == GridRangeOfMatch(a1, Match(a1))

----------------------------------------------------------------------------
(* Response envelopes.  isError = FALSE stands for an envelope that does   *)
(* not carry the isError property (no handler ever sets it to false).      *)

Envelope(payload) == [isError |-> FALSE, text |-> payload]

ErrorEnvelope(text) == [isError |-> TRUE, text |-> text]

\* a catch that returns the message without the isError property
DispatchError_Unflagged(message) == Envelope("Error: " \o message)

\* the catch of the call-tool dispatcher
DispatchError(message) == ErrorEnvelope("Error: " \o message)

\* the message a failed remote call throws
RemoteError == "remote call failed"

----------------------------------------------------------------------------
(* handleDriveBatchMove and handleDriveBatchExport.                        *)

NoBatch ==
    [fileIds |-> <<>>, targetFolderId |-> "", format |-> "", mimeType |-> "",
     i |-> 0, previousParents |-> <<>>, success |-> <<>>, failed |-> <<>>]

\* a table that exports every format as PDF
mimeTypeMap_AlwaysPdf(format) ==
    CASE format \in {"pdf", "docx", "xlsx", "pptx"} -> "application/pdf"

mimeTypeMap(format) ==
    CASE format = "pdf" -> "application/pdf"
      [] format = "docx" ->
            "application/vnd.openxmlformats-officedocument.wordprocessingml.document"
      [] format = "xlsx" ->
            "application/vnd.openxmlformats-officedocument.spreadsheetml.sheet"
      [] format = "pptx" ->
            "application/vnd.openxmlformats-officedocument.presentationml.presentation"

\* sizes of the buffers the remote export returns
ExportSizes == {0, 7}

\* a move that takes the file out of the first of its parents only
previousParents_FirstOnly(parents) ==
    IF parents = <<>> THEN <<>> ELSE <<Head(parents)>>

\* `file.data.parents?.join(',')`: the ids the update is told to remove, the
\* list the service reads back from the comma-separated string
previousParents(parents) == parents

\* files.update with addParents / removeParents
UpdateParents(d, fileId, addParents, removeParents) ==
    [i \in 1..Len(d) |->
        IF d[i].id = fileId
        THEN [d[i] EXCEPT !.parents =
                SelectSeq(@, LAMBDA p : p \notin Range(removeParents) /\ p # addParents)
                    \o <<addParents>>]
        ELSE d[i]]

\* the result object of handleDriveBatchMove (lines 1523-1529)
BatchMoveResult(b) ==
    [success |-> TRUE,
     movedCount |-> Len(b.success),
     failedCount |-> Len(b.failed),
     targetFolderId |-> b.targetFolderId,
     details |-> [success |-> b.success, failed |-> b.failed]]

\* the result object of handleDriveBatchExport (lines 1868-1876)
BatchExportResult(b) ==
    [success |-> TRUE,
     format |-> b.format,
     mimeType |-> b.mimeType,
     exportedCount |-> Len(b.success),
     failedCount |-> Len(b.failed),
     totalSize |-> SumSeq([k \in 1..Len(b.success) |-> b.success[k].size]),
     details |-> [success |-> b.success, failed |-> b.failed]]

\* a failed id that is dropped instead of recorded
PushFailed_Dropped(b) == [b EXCEPT !.i = @ + 1, !.previousParents = <<>>]

\* `results.failed.push({fileId, error})` and on to the next id
PushFailed(b) ==
    [b EXCEPT !.failed = Append(@, [fileId |-> b.fileIds[b.i], error |-> RemoteError]),
              !.i = @ + 1, !.previousParents = <<>>]

\* `results.success.push(entry)` and on to the next id
PushSuccess(b, entry) ==
    [b EXCEPT !.success = Append(@, entry), !.i = @ + 1, !.previousParents = <<>>]

\* a loop that ends at the first failure
LoopBatch_StopOnFailure(b, firstCall, result) ==
    IF b.i <= Len(b.fileIds) /\ Len(b.failed) = 0
    THEN /\ pc' = firstCall
         /\ response' = response
    ELSE /\ pc' = "done"
         /\ response' = Envelope(result)

\* a loop whose result is an error response as soon as an item has failed
LoopBatch_ErrorOnFailure(b, firstCall, result) ==
    IF b.i <= Len(b.fileIds)
    THEN /\ pc' = firstCall
         /\ response' = response
    ELSE /\ pc' = "done"
         /\ response' = IF Len(b.failed) = 0 THEN Envelope(result)
                        ELSE [isError |-> TRUE, text |-> result]

\* the for-of loop: the next id's first remote call, or the return after the last id
LoopBatch(b, firstCall, result) ==
    IF b.i <= Len(b.fileIds)
    THEN /\ pc' = firstCall
         /\ response' = response
    ELSE /\ pc' = "done"
         /\ response' = Envelope(result)

\* case 'gdrive_batch_move' of the dispatcher
DispatchBatchMove ==
    /\ pc = "call"
    /\ request.name = "gdrive_batch_move"
    /\ LET r == validateBatchMoveArgs(request.arguments) IN
         IF r.ok
         THEN /\ batch' = [NoBatch EXCEPT !.fileIds = r.value.fileIds,
                                          !.targetFolderId = r.value.targetFolderId,
                                          !.i = 1]
              /\ pc' = "move.get"
              /\ response' = response
         ELSE /\ batch' = batch
              /\ pc' = "done"
              /\ response' = DispatchError(r.message)
    /\ UNCHANGED <<tools, a1Range, gridRange, local, auth, served, second, request, drive, calls, stack>>

\* `await this.drive.files.get({fileId, fields: 'id, name, parents'})` in the loop
BatchMoveGet ==
    /\ pc = "move.get"
    /\ LET fileId == batch.fileIds[batch.i] IN
       \E outcome \in {"ok", "error"} :
         /\ outcome = "ok" => Exists(drive, fileId)
         /\ calls' = Append(calls, Call("files.get", fileId, outcome, NoBody, ""))
         /\ IF outcome = "ok"
            THEN /\ batch' = [batch EXCEPT !.previousParents =
                                        previousParents(Lookup(drive, fileId).parents)]
                 /\ pc' = "move.update"
                 /\ response' = response
            ELSE /\ batch' = PushFailed(batch)
                 /\ LoopBatch(batch', "move.get", BatchMoveResult(batch'))
    /\ UNCHANGED <<tools, a1Range, gridRange, local, auth, served, second, request, drive, stack>>

\* `await this.drive.files.update({fileId, addParents, removeParents})` in the loop
BatchMoveUpdate ==
    /\ pc = "move.update"
    /\ LET fileId == batch.fileIds[batch.i] IN
       \E outcome \in {"ok", "error"} :
         /\ outcome = "ok" => Exists(drive, fileId) /\ Exists(drive, batch.targetFolderId)
         /\ calls' = Append(calls,
                Call("files.update", fileId, outcome,
                     [addParents |-> batch.targetFolderId,
                      removeParents |-> batch.previousParents], ""))
         /\ IF outcome = "ok"
            THEN /\ drive' = UpdateParents(drive, fileId, batch.targetFolderId,
                                           batch.previousParents)
                 /\ batch' = PushSuccess(batch, fileId)
            ELSE /\ drive' = drive
                 /\ batch' = PushFailed(batch)
         /\ LoopBatch(batch', "move.get", BatchMoveResult(batch'))
    /\ UNCHANGED <<tools, a1Range, gridRange, local, auth, served, second, request, stack>>

\* case 'gdrive_batch_export' of the dispatcher
DispatchBatchExport ==
    /\ pc = "call"
    /\ request.name = "gdrive_batch_export"
    /\ LET r == validateBatchExportArgs(request.arguments) IN
         IF r.ok
         THEN /\ batch' = [NoBatch EXCEPT !.fileIds = r.value.fileIds,
                                          !.format = r.value.format,
                                          !.mimeType = mimeTypeMap(r.value.format),
                                          !.i = 1]
              /\ pc' = "export"
              /\ response' = response
         ELSE /\ batch' = batch
              /\ pc' = "done"
              /\ response' = DispatchError(r.message)
    /\ UNCHANGED <<tools, a1Range, gridRange, local, auth, served, second, request, drive, calls, stack>>

\* `await this.drive.files.export({fileId, mimeType}, ...)` in the loop
BatchExport ==
    /\ pc = "export"
    /\ LET fileId == batch.fileIds[batch.i] IN
       \E outcome \in {"ok", "error"}, size \in ExportSizes :
         /\ outcome = "ok" => Exists(drive, fileId)
         /\ outcome = "error" => size = 0
         /\ calls' = Append(calls,
                Call("files.export", fileId, outcome, [mimeType |-> batch.mimeType], ""))
         /\ batch' = IF outcome = "ok"
                     THEN PushSuccess(batch, [fileId |-> fileId, size |-> size])
                     ELSE PushFailed(batch)
         /\ LoopBatch(batch', "export", BatchExportResult(batch'))
    /\ UNCHANGED <<tools, a1Range, gridRange, local, auth, served, second, request, drive, stack>>

----------------------------------------------------------------------------
(* handleDriveCopyFolder.  The handler calls itself for every sub-folder,  *)
(* so its activation records form a stack; the remote call awaited is the  *)
(* one of the innermost record.  A record holds the arguments and locals   *)
(* of one activation: listing is files.data.files, k the position of the   *)
(* for-of loop in it.                                                      *)

Frame(args) ==
    [sourceFolderId |-> args.sourceFolderId,
     targetParentFolderId |-> args.targetParentFolderId,
     newName |-> args.newName,
     newFolderName |-> "",
     newFolderId |-> "",
     listing |-> <<>>,
     k |-> 0,
     copiedFiles |-> [folders |-> 0, files |-> 0, errors |-> <<>>]]

Top(st) == st[Len(st)]

SetTop(st, f) == [st EXCEPT ![Len(st)] = f]

\* `args.newName || `Copy of ${sourceFolder.data.name}``  (line 1597)
NewFolderName(newName, sourceName) == OrElse(newName, Str("Copy of " \o sourceName)).v

\* the parents of the created folder (lines 1600-1607); the service files a
\* folder created without parents under the root of the drive
NewFolderParents(targetParentFolderId) ==
    IF Truthy(targetParentFolderId) THEN <<targetParentFolderId.v>> ELSE <<RootId>>

\* the id the service gives the next file or folder it creates
FreshId(d) == "c" \o ToString(Len(d) + 1)

\* a listing that does not filter out the trashed entries
ListChildren_WithTrashed(d, folderId) ==
    LET hits == SelectSeq(d, LAMBDA n : folderId \in Range(n.parents))
    IN  [i \in 1..Len(hits) |->
            [id |-> hits[i].id, name |-> hits[i].name, mimeType |-> hits[i].mimeType]]

\* files.list with q = `'<folderId>' in parents and trashed=false`,
\* fields 'files(id, name, mimeType)': the matches, in the order the service
\* keeps them.  The handler reads this one response only, which is taken to
\* hold every match.
ListChildren(d, folderId) ==
    LET hits == SelectSeq(d, LAMBDA n : folderId \in Range(n.parents) /\ ~n.trashed)
    IN  [i \in 1..Len(hits) |->
            [id |-> hits[i].id, name |-> hits[i].name, mimeType |-> hits[i].mimeType]]

\* the result object of one activation (lines 1665-1674); JSON.stringify
\* leaves out a property whose value is undefined
CopyFolderResult(f) ==
    [success |-> TRUE,
     newFolderId |-> f.newFolderId,
     newFolderName |-> f.newFolderName,
     sourceFilesFound |-> Len(f.listing),
     copiedFiles |-> f.copiedFiles.files,
     copiedFolders |-> f.copiedFiles.folders,
     errors |-> IF Len(f.copiedFiles.errors) > 0 THEN Arr(f.copiedFiles.errors) ELSE Undef]

\* a failure of the source folder's own calls reported without isError
CopyFolderError_Unflagged == Envelope("Error copying folder: Error: " \o RemoteError)

\* the outer catch (lines 1678-1688)
CopyFolderError == ErrorEnvelope("Error copying folder: Error: " \o RemoteError)

\* a child failure that ends the loop over the children
ChildFailed_SkipRest(f, text) ==
    [f EXCEPT !.copiedFiles.errors = Append(@, "Failed to copy " \o f.listing[f.k].name \o ": " \o text),
              !.k = Len(f.listing) + 1]

\* the inner catch (lines 1655-1658): record the child and go on with the next one
ChildFailed(f, text) ==
    [f EXCEPT !.copiedFiles.errors = Append(@, "Failed to copy " \o f.listing[f.k].name \o ": " \o text),
              !.k = @ + 1]

\* `copiedFiles.files++` and on to the next child
FileCopied(f) == [f EXCEPT !.copiedFiles.files = @ + 1, !.k = @ + 1]

\* the recursive call has returned (its envelope is not looked at, lines
\* 1633-1637): `copiedFiles.folders++` and on to the next child
FolderCopied(f, envelope) == [f EXCEPT !.copiedFiles.folders = @ + 1, !.k = @ + 1]

\* a recursive call that hands the caller's newName down
RecursiveArgs_InheritName(f) ==
    [sourceFolderId |-> f.listing[f.k].id,
     targetParentFolderId |-> Str(f.newFolderId),
     newName |-> f.newName]

\* the recursive call for a sub-folder child (lines 1633-1636)
RecursiveArgs(f) ==
    [sourceFolderId |-> f.listing[f.k].id,
     targetParentFolderId |-> Str(f.newFolderId),
     newName |-> Undef]

\* The local code between two remote calls.  ret is <<>> when the innermost
\* activation is in its for-of loop, <<envelope>> when it returns envelope.
\* The result: the stack, the remote call awaited next ("done" when the
\* outermost activation has returned) and the response.  The code does not
\* bound the recursion; the model does not follow it below MaxDepth
\* activations ("deeper").
RECURSIVE Continue(_, _)
Continue(st, ret) ==
    IF ret # <<>>
    THEN IF Len(st) = 1
         THEN [stack |-> st, pc |-> "done", response |-> ret[1]]
         ELSE LET caller == SubSeq(st, 1, Len(st) - 1)
              IN  Continue(SetTop(caller, FolderCopied(Top(caller), ret[1])), <<>>)
    ELSE LET f == Top(st) IN
         IF f.k > Len(f.listing)
         THEN Continue(st, <<Envelope(CopyFolderResult(f))>>)
         ELSE IF f.listing[f.k].mimeType = FolderMime
              THEN IF Len(st) < MaxDepth
                   THEN [stack |-> Append(st, Frame(RecursiveArgs(f))),
                         pc |-> "copy.get", response |-> NoResponse]
                   ELSE [stack |-> st, pc |-> "deeper", response |-> NoResponse]
              ELSE [stack |-> st, pc |-> "copy.file", response |-> NoResponse]

Resume(st, ret) ==
    LET c == Continue(st, ret) IN
    /\ stack' = c.stack
    /\ pc' = c.pc
    /\ response' = IF c.pc = "done" THEN c.response ELSE response

Failures(log) == Cardinality({i \in 1..Len(log) : log[i].outcome # "ok"})

\* the outcomes of a remote call: it succeeds only if the service can serve
\* it, and it fails for other reasons at most MaxFailures times in one run
Outcomes(all, canSucceed) ==
    {o \in all : IF o = "ok" THEN canSucceed
                 ELSE canSucceed => Failures(calls) < MaxFailures}

\* case 'gdrive_copy_folder' of the dispatcher
DispatchCopyFolder ==
    /\ pc = "call"
    /\ request.name = "gdrive_copy_folder"
    /\ LET r == validateCopyFolderArgs(request.arguments) IN
         IF r.ok
         THEN /\ stack' = <<Frame(r.value)>>
              /\ pc' = "copy.get"
              /\ response' = response
         ELSE /\ stack' = stack
              /\ pc' = "done"
              /\ response' = DispatchError(r.message)
    /\ UNCHANGED <<tools, a1Range, gridRange, local, auth, served, second, request, drive, calls, batch>>

\* `await this.drive.files.get({fileId: args.sourceFolderId, fields: 'id, name'})`
CopyFolderGet ==
    /\ pc = "copy.get"
    /\ LET f == Top(stack) IN
       \E outcome \in Outcomes({"ok", "error"}, Exists(drive, f.sourceFolderId)) :
         /\ calls' = Append(calls,
                Call("files.get", f.sourceFolderId, outcome, NoBody, ""))
         /\ IF outcome = "ok"
            THEN /\ stack' = SetTop(stack,
                        [f EXCEPT !.newFolderName =
                            NewFolderName(f.newName, Lookup(drive, f.sourceFolderId).name)])
                 /\ pc' = "copy.create"
                 /\ response' = response
            ELSE Resume(stack, <<CopyFolderError>>)
    /\ UNCHANGED <<tools, a1Range, gridRange, local, auth, served, second, request, drive, batch>>

\* `await this.drive.files.create({requestBody: newFolderMetadata, ...})`
CopyFolderCreate ==
    /\ pc = "copy.create"
    /\ LET f == Top(stack)
           parents == NewFolderParents(f.targetParentFolderId)
           id == FreshId(drive)
       IN
       \E outcome \in Outcomes({"ok", "error"},
                               parents[1] = RootId \/ Exists(drive, parents[1])) :
         /\ calls' = Append(calls,
                Call("files.create", f.sourceFolderId, outcome,
                     [name |-> f.newFolderName, parents |-> parents],
                     IF outcome = "ok" THEN id ELSE ""))
         /\ IF outcome = "ok"
            THEN /\ drive' = Append(drive,
                        Node(id, f.newFolderName, FolderMime, parents, FALSE))
                 /\ stack' = SetTop(stack, [f EXCEPT !.newFolderId = id])
                 /\ pc' = "copy.list"
                 /\ response' = response
            ELSE /\ drive' = drive
                 /\ Resume(stack, <<CopyFolderError>>)
    /\ UNCHANGED <<tools, a1Range, gridRange, local, auth, served, second, request, batch>>

\* `await this.drive.files.list({q: `'${args.sourceFolderId}' in parents and
\* trashed=false`, ...})` and the start of the for-of loop
CopyFolderList ==
    /\ pc = "copy.list"
    /\ LET f == Top(stack) IN
       \E outcome \in Outcomes({"ok", "error"}, TRUE) :
         /\ calls' = Append(calls,
                Call("files.list", f.sourceFolderId, outcome, NoBody, ""))
         /\ IF outcome = "ok"
            THEN Resume(SetTop(stack,
                        [f EXCEPT !.listing = ListChildren(drive, f.sourceFolderId),
                                  !.k = 1]), <<>>)
            ELSE Resume(stack, <<CopyFolderError>>)
    /\ UNCHANGED <<tools, a1Range, gridRange, local, auth, served, second, request, drive, batch>>

\* `await this.drive.files.copy({fileId: file.id, requestBody: {name: file.name,
\* parents: [newFolderId]}, ...})` for a child that is no folder; "noid" is a
\* response that carries no id
CopyFolderFile ==
    /\ pc = "copy.file"
    /\ LET f == Top(stack)
           file == f.listing[f.k]
           id == FreshId(drive)
       IN
       \E outcome \in Outcomes({"ok", "noid", "error"}, Exists(drive, file.id)) :
         /\ calls' = Append(calls,
                Call("files.copy", file.id, outcome,
                     [name |-> file.name, parents |-> <<f.newFolderId>>],
                     IF outcome = "ok" THEN id ELSE ""))
         /\ drive' = IF outcome = "ok"
                     THEN Append(drive,
                            Node(id, file.name, Lookup(drive, file.id).mimeType,
                                 <<f.newFolderId>>, FALSE))
                     ELSE drive
         /\ Resume(SetTop(stack,
                CASE outcome = "ok" -> FileCopied(f)
                  [] outcome = "noid" -> ChildFailed(f, "No file ID returned")
                  [] outcome = "error" -> ChildFailed(f, RemoteError)), <<>>)
    /\ UNCHANGED <<tools, a1Range, gridRange, local, auth, served, second, request, batch>>

----------------------------------------------------------------------------
(* handleDriveListFolderTree.  listFilesRecursive calls itself for every   *)
(* sub-folder; its activation records are [folderId, path, files, k,       *)
(* results], files the response of its files.list call, k the position of  *)
(* its for-of loop.  No activation catches: a failed listing at any depth  *)
(* ends in the catch of the handler.                                       *)

validateListFolderTreeArgs(args) ==
    IF NotObject(args) THEN Err("Invalid arguments: expected object")
    ELSE IF ~Truthy(args.v.folderId) \/ ~IsString(args.v.folderId)
         THEN Err("Invalid folderId: expected non-empty string")
    ELSE Ok([folderId |-> args.v.folderId.v,
             recursive |-> args.v.recursive # Bool(FALSE),
             includeMetadata |-> args.v.includeMetadata = Bool(TRUE)])

\* `pageSize: 1000` of the files.list call (line 1904), scaled down to the
\* trees explored: a response carries at most this many entries
TreePageSize == 2

\* the fields asked for (lines 1897-1899)
TreeFields(includeMetadata) ==
    IF includeMetadata
    THEN "files(id, name, mimeType, size, createdTime, modifiedTime, owners, webViewLink)"
    ELSE "files(id, name, mimeType)"

\* the response of files.list with pageSize n: the first n matches (the
\* service announces the rest with a nextPageToken, which is not read)
FirstPage(matches, n) == SubSeq(matches, 1, IF Len(matches) < n THEN Len(matches) ELSE n)

TreeFrame(folderId, path) ==
    [folderId |-> folderId, path |-> path, files |-> <<>>, k |-> 0, results |-> <<>>]

\* a path that is the name of the file alone
FilePath_NameOnly(path, name) == name

\* `path ? `${path}/${file.name}` : file.name`  (line 1913)
FilePath(path, name) == IF path # "" THEN path \o "/" \o name ELSE name

\* fileInfo (lines 1914-1927); metadata stands for the properties size,
\* created, modified, owner and url, set when includeMetadata is
FileInfo(file, path, includeMetadata) ==
    [id |-> file.id, name |-> file.name, path |-> FilePath(path, file.name),
     type |-> file.mimeType, metadata |-> includeMetadata]

\* the result object (lines 1947-1954)
ListFolderTreeResult(args, allFiles) ==
    [success |-> TRUE,
     folderId |-> args.folderId,
     totalFiles |-> Len(allFiles),
     recursive |-> args.recursive,
     includeMetadata |-> args.includeMetadata,
     files |-> allFiles]

\* a catch that returns the message without the isError property
ListFolderTreeError_Unflagged == Envelope("Error listing folder tree: Error: " \o RemoteError)

\* the catch of the handler (lines 1958-1968)
ListFolderTreeError == ErrorEnvelope("Error listing folder tree: Error: " \o RemoteError)

\* The local code of listFilesRecursive between two files.list calls: the
\* for-of loop of the innermost activation, its return into the loop of its
\* caller, and the return of the handler.  The recursion is followed down to
\* MaxDepth activations ("deeper" below).
RECURSIVE TreeContinue(_, _)
TreeContinue(args, st) ==
    LET f == Top(st) IN
    IF f.k > Len(f.files)
    THEN IF Len(st) = 1
         THEN [stack |-> st, pc |-> "done",
               response |-> Envelope(ListFolderTreeResult(args, f.results))]
         ELSE LET caller == Top(SubSeq(st, 1, Len(st) - 1))
              IN  TreeContinue(args,
                      SetTop(SubSeq(st, 1, Len(st) - 1),
                             [caller EXCEPT !.results = @ \o f.results, !.k = @ + 1]))
    ELSE LET file == f.files[f.k] IN
         IF file.id = "" \/ file.name = ""
         THEN TreeContinue(args, SetTop(st, [f EXCEPT !.k = @ + 1]))
         ELSE LET pushed == [f EXCEPT !.results =
                                Append(@, FileInfo(file, f.path, args.includeMetadata))]
              IN  IF args.recursive /\ file.mimeType = FolderMime
                  THEN IF Len(st) < MaxDepth
                       THEN [stack |-> Append(SetTop(st, pushed),
                                          TreeFrame(file.id, FilePath(f.path, file.name))),
                             pc |-> "tree.list", response |-> NoResponse]
                       ELSE [stack |-> SetTop(st, pushed), pc |-> "deeper",
                             response |-> NoResponse]
                  ELSE TreeContinue(args, SetTop(st, [pushed EXCEPT !.k = @ + 1]))

\* case 'gdrive_list_folder_tree' of the dispatcher
DispatchListFolderTree ==
    /\ pc = "call"
    /\ request.name = "gdrive_list_folder_tree"
    /\ LET r == validateListFolderTreeArgs(request.arguments) IN
         IF r.ok
         THEN /\ local' = [args |-> r.value, step |-> 0, got |-> NoGot]
              /\ stack' = <<TreeFrame(r.value.folderId, "")>>
              /\ pc' = "tree.list"
              /\ response' = response
         ELSE /\ local' = local
              /\ stack' = stack
              /\ pc' = "done"
              /\ response' = DispatchError(r.message)
    /\ UNCHANGED <<tools, a1Range, gridRange, request, drive, calls, batch, auth, served, second>>

\* `await this.drive.files.list({q: `'${folderId}' in parents and
\* trashed=false`, fields, pageSize: 1000})` and the for-of loop after it
TreeList ==
    /\ pc = "tree.list"
    /\ LET f == Top(stack) IN
       \E outcome \in Outcomes({"ok", "error"}, TRUE) :
         /\ calls' = Append(calls,
                Call("files.list", f.folderId, outcome,
                     [fields |-> TreeFields(local.args.includeMetadata),
                      pageSize |-> TreePageSize], ""))
         /\ LET c == IF outcome = "ok"
                     THEN TreeContinue(local.args,
                            SetTop(stack,
                              [f EXCEPT !.files = FirstPage(ListChildren(drive, f.folderId),
                                                            TreePageSize),
                                        !.k = 1]))
                     ELSE [stack |-> stack, pc |-> "done", response |-> ListFolderTreeError]
            IN  /\ stack' = c.stack
                /\ pc' = c.pc
                /\ response' = IF c.pc = "done" THEN c.response ELSE response
    /\ UNCHANGED <<tools, a1Range, gridRange, request, drive, batch, local, auth, served, second>>

----------------------------------------------------------------------------
(* The dispatcher and the handlers that are one try block around a fixed   *)
(* chain of remote calls.  Steps lists what such a handler awaits, call by *)
(* call, and where its local code throws; local.step counts the calls that *)
(* have returned and local.got holds what their responses gave.            *)

\* no listing asked for yet
NoTools == <<>>

\* a listing that leaves out the tree listing
Catalogue_WithoutTree ==
    <<"gsheets_batch_update", "gsheets_create_and_populate", "gsheets_append_rows",
      "gsheets_format_cells", "gdocs_create_document", "gdocs_get_document",
      "gdocs_insert_text", "gdocs_append_text", "gdocs_replace_text",
      "gdocs_format_text", "gdocs_set_heading", "gsheets_get_auth_url",
      "gsheets_set_auth_code", "gdrive_search", "gdrive_read_file",
      "gdrive_get_file_info", "gdrive_move_file", "gdrive_batch_move",
      "gdrive_create_folder", "gdrive_copy_folder", "gdrive_search_content",
      "gdrive_get_revisions", "gdrive_export_file", "gdrive_batch_export",
      "gdrive_list_permissions">>

\* the tools of the listing, by name, in its order
Catalogue ==
    <<"gsheets_batch_update", "gsheets_create_and_populate", "gsheets_append_rows",
      "gsheets_format_cells", "gdocs_create_document", "gdocs_get_document",
      "gdocs_insert_text", "gdocs_append_text", "gdocs_replace_text",
      "gdocs_format_text", "gdocs_set_heading", "gsheets_get_auth_url",
      "gsheets_set_auth_code", "gdrive_search", "gdrive_read_file",
      "gdrive_get_file_info", "gdrive_move_file", "gdrive_batch_move",
      "gdrive_create_folder", "gdrive_copy_folder", "gdrive_search_content",
      "gdrive_get_revisions", "gdrive_export_file", "gdrive_batch_export",
      "gdrive_list_folder_tree", "gdrive_list_permissions">>

\* the tools whose handlers loop or recurse; they have actions of their own
CompositeTools ==
    {"gdrive_batch_move", "gdrive_batch_export", "gdrive_copy_folder",
     "gdrive_list_folder_tree"}

\* a default case whose message leaves out the name
UnknownTool_NoName(name) == Err("Unknown tool")

\* `default: throw new Error(`Unknown tool: ${request.params.name}`)`
UnknownTool(name) == Err("Unknown tool: " \o name)

\* the switch of the dispatcher: the validation each case runs before it
\* calls the handler; the default case throws
Validate(name, args) ==
    CASE name = "gsheets_batch_update" -> validateBatchUpdateArgs(args)
      [] name = "gsheets_create_and_populate" -> validateCreateArgs(args)
      [] name = "gsheets_append_rows" -> validateAppendArgs(args)
      [] name = "gsheets_format_cells" -> validateFormatArgs(args)
      [] name = "gdocs_create_document" -> validateCreateDocArgs(args)
      [] name = "gdocs_get_document" -> validateDocumentIdArgs(args)
      [] name = "gdocs_insert_text" -> validateInsertTextArgs(args)
      [] name = "gdocs_append_text" -> validateInsertTextArgs(args)
      [] name = "gdocs_replace_text" -> validateReplaceTextArgs(args)
      [] name = "gdocs_format_text" -> validateFormatTextArgs(args)
      [] name = "gdocs_set_heading" -> validateSetHeading(args)
      [] name = "gsheets_get_auth_url" -> Ok(<<>>)
      [] name = "gsheets_set_auth_code" -> validateSetAuthCode(args)
      [] name = "gdrive_search" -> validateDriveSearchArgs(args)
      [] name = "gdrive_read_file" -> validateDriveReadArgs(args)
      [] name = "gdrive_get_file_info" -> validateDriveReadArgs(args)
      [] name = "gdrive_move_file" -> validateMoveFileArgs(args)
      [] name = "gdrive_batch_move" -> validateBatchMoveArgs(args)
      [] name = "gdrive_create_folder" -> validateCreateFolderArgs(args)
      [] name = "gdrive_copy_folder" -> validateCopyFolderArgs(args)
      [] name = "gdrive_search_content" -> validateSearchContentArgs(args)
      [] name = "gdrive_get_revisions" -> validateGetRevisionsArgs(args)
      [] name = "gdrive_export_file" -> validateExportFileArgs(args)
      [] name = "gdrive_batch_export" -> validateBatchExportArgs(args)
      [] name = "gdrive_list_folder_tree" -> validateListFolderTreeArgs(args)
      [] name = "gdrive_list_permissions" -> validateListPermissionsArgs(args)
      [] OTHER -> UnknownTool(name)

\* the text before the cause in the catch of each handler
CatchPrefix(name) ==
    CASE name = "gsheets_batch_update" -> "Error updating spreadsheet"
      [] name = "gsheets_create_and_populate" -> "Error creating spreadsheet"
      [] name = "gsheets_append_rows" -> "Error appending rows"
      [] name = "gsheets_format_cells" -> "Error formatting cells"
      [] name = "gdocs_create_document" -> "Error creating document"
      [] name = "gdocs_get_document" -> "Error getting document"
      [] name = "gdocs_insert_text" -> "Error inserting text"
      [] name = "gdocs_append_text" -> "Error appending text"
      [] name = "gdocs_replace_text" -> "Error replacing text"
      [] name = "gdocs_format_text" -> "Error formatting text"
      [] name = "gdocs_set_heading" -> "Error setting heading"
      [] name = "gsheets_get_auth_url" -> "Error generating auth URL"
      [] name = "gsheets_set_auth_code" -> "Error exchanging code for tokens"
      [] name = "gdrive_search" -> "Error searching Drive"
      [] name = "gdrive_read_file" -> "Error reading file"
      [] name = "gdrive_get_file_info" -> "Error getting file info"
      [] name = "gdrive_move_file" -> "Error moving file"
      [] name = "gdrive_create_folder" -> "Error creating folder"
      [] name = "gdrive_search_content" -> "Error searching content"
      [] name = "gdrive_get_revisions" -> "Error getting revisions"
      [] name = "gdrive_export_file" -> "Error exporting file"
      [] name = "gdrive_list_permissions" -> "Error listing permissions"

\* a handler that lets the exception go instead of returning an envelope
HandlerCatch_Rethrow(name, message) ==
    [pc |-> "thrown", response |-> NoResponse]

\* the catch of a handler: `${prefix}: ${error}`, isError: true; message is
\* the text of the error, its name included
HandlerCatch(name, message) ==
    [pc |-> "done",
     response |-> ErrorEnvelope(CatchPrefix(name) \o ": " \o message)]

DocumentMime == "application/vnd.google-apps.document"
SpreadsheetMime == "application/vnd.google-apps.spreadsheet"

\* a template literal `${x}` of a string or a number
Template(x) ==
    CASE x.t = "string" -> x.v
      [] x.t = "number" -> ToString(x.v)
      [] OTHER -> "[object Object]"

\* `x && x.length > 0`
NonEmpty(x) ==
    \/ x.t = "array" /\ Len(x.v) > 0
    \/ x.t = "string" /\ x.v # ""

\* a step of a handler: a remote call to await, or a throw of its local
\* code, `throw new Error(message)` or a TypeError of the runtime
Await(api, fileId, body) == [api |-> api, fileId |-> fileId, body |-> body, message |-> ""]
Throw(message) ==
    [api |-> "throw", fileId |-> "", body |-> NoBody, message |-> "Error: " \o message]
ThrowTypeError(message) ==
    [api |-> "throw", fileId |-> "", body |-> NoBody, message |-> "TypeError: " \o message]

\* `args.requests.map(req => ...)` of handleFormatCells from request i on,
\* mapped being the repeatCell ranges so far, and the batchUpdate that
\* follows: a1ToGridRange(req.range) throws for a text that does not match
\* and fails on a value without a match method, Object.keys(req.format) on
\* a format that is undefined
RECURSIVE MapRequests(_, _, _, _)

\* the rest of the callback for request i, range being what a1ToGridRange
\* returned or threw
RepeatCell(spreadsheetId, requests, i, mapped, range) ==
    IF ~range.ok THEN Throw(range.message)
    ELSE IF requests[i].v.format = Undef
    THEN ThrowTypeError("Cannot convert undefined or null to object")
    ELSE MapRequests(spreadsheetId, requests, i + 1, Append(mapped, range.value))

\* a callback that sends a range it cannot read as the empty grid range
RECURSIVE MapRequests_ZeroSized(_, _, _, _)
MapRequests_ZeroSized(spreadsheetId, requests, i, mapped) ==
    IF i > Len(requests)
    THEN Await("sheets.batchUpdate", spreadsheetId, [requests |-> mapped])
    ELSE LET req == requests[i]
             range == IF req.t = "object" /\ IsString(req.v.range)
                      THEN a1ToGridRange(req.v.range.v) ELSE Err("")
         IN  MapRequests_ZeroSized(spreadsheetId, requests, i + 1,
                 Append(mapped, IF range.ok THEN range.value
                                ELSE [startRowIndex |-> 0, endRowIndex |-> 0,
                                      startColumnIndex |-> 0, endColumnIndex |-> 0]))

MapRequests(spreadsheetId, requests, i, mapped) ==
    IF i > Len(requests)
    THEN Await("sheets.batchUpdate", spreadsheetId, [requests |-> mapped])
    ELSE IF requests[i] = Undef
    THEN ThrowTypeError("Cannot read properties of undefined (reading 'range')")
    ELSE IF requests[i].t # "object" \/ requests[i].v.range = Undef
    THEN ThrowTypeError("Cannot read properties of undefined (reading 'match')")
    ELSE IF ~IsString(requests[i].v.range)
    THEN ThrowTypeError("a1Range.match is not a function")
    ELSE RepeatCell(spreadsheetId, requests, i, mapped,
                    a1ToGridRange(requests[i].v.range.v))

\* `files.get` for the parents and `files.update` into args.parentFolderId
\* (lines 2096-2112, 2263-2279)
MoveToParent(parentFolderId, got) ==
    IF Truthy(parentFolderId)
    THEN <<Await("files.get", got.id, [fields |-> "parents"]),
           Await("files.update", got.id,
                 [addParents |-> parentFolderId.v, removeParents |-> got.parents])>>
    ELSE <<>>

\* the second call of handleDriveReadFile, by the type files.get reported
ReadContent(fileId, mimeType) ==
    CASE mimeType = DocumentMime -> Await("files.export", fileId, [mimeType |-> "text/plain"])
      [] mimeType = SpreadsheetMime -> Await("files.export", fileId, [mimeType |-> "text/csv"])
      [] mimeType \in {"text/plain", "application/json"} ->
            Await("files.get", fileId, [alt |-> "media"])
      [] OTHER -> Throw("Unsupported file type: " \o mimeType
                        \o ". Can only read text files, Google Docs, and Google Sheets.")

Steps(name, a, got) ==
    CASE name = "gsheets_batch_update" ->
            <<Await("sheets.values.batchUpdate", a.spreadsheetId.v,
                    [valueInputOption |-> "USER_ENTERED", data |-> a.updates.v])>>
      [] name = "gsheets_create_and_populate" ->
            <<Await("sheets.create", "",
                    [title |-> a.title.v,
                     sheetTitle |-> OrElse(a.sheetTitle, Str("Sheet1"))])>>
            \o (IF Truthy(a.data) /\ NonEmpty(a.data)
                THEN <<Await("sheets.values.update", got.id,
                             [range |-> Template(OrElse(a.sheetTitle, Str("Sheet1"))) \o "!A1",
                              values |-> a.data])>>
                ELSE <<>>)
            \o MoveToParent(a.parentFolderId, got)
      [] name = "gsheets_append_rows" ->
            <<Await("sheets.values.append", a.spreadsheetId.v,
                    [range |-> a.range.v, values |-> a.values.v])>>
      [] name = "gsheets_format_cells" ->
            <<MapRequests(a.spreadsheetId.v, a.requests.v, 1, <<>>)>>
      [] name = "gdocs_create_document" ->
            <<Await("docs.create", "", [title |-> a.title.v])>>
            \o (IF Truthy(a.content) /\ ~IsString(a.content)
                THEN <<ThrowTypeError("args.content.trim is not a function")>>
                ELSE (IF Truthy(a.content) /\ a.content.v # " "
                      THEN <<Await("docs.batchUpdate", got.id,
                                   [index |-> Num(1), text |-> a.content.v])>>
                      ELSE <<>>)
                     \o MoveToParent(a.parentFolderId, got))
      [] name = "gdocs_get_document" ->
            <<Await("docs.get", a.documentId.v, NoBody)>>
      [] name = "gdocs_insert_text" ->
            (IF a.index = Undef THEN <<Await("docs.get", a.documentId.v, NoBody)>> ELSE <<>>)
            \o <<Await("docs.batchUpdate", a.documentId.v,
                       [index |-> a.index, text |-> a.text.v])>>
      [] name = "gdocs_append_text" ->
            <<Await("docs.get", a.documentId.v, NoBody),
              Await("docs.batchUpdate", a.documentId.v,
                    [index |-> Undef, text |-> a.text.v])>>
      [] name = "gdocs_replace_text" ->
            <<Await("docs.batchUpdate", a.documentId.v,
                    [find |-> a.find.v, replace |-> a.replace.v])>>
      [] name = "gdocs_format_text" ->
            <<Await("docs.batchUpdate", a.documentId.v,
                    [startIndex |-> a.startIndex.v, endIndex |-> a.endIndex.v])>>
      [] name = "gdocs_set_heading" ->
            <<Await("docs.batchUpdate", a.documentId.v,
                    [startIndex |-> a.startIndex.v, endIndex |-> a.endIndex.v,
                     headingLevel |-> a.headingLevel])>>
      [] name = "gsheets_get_auth_url" -> <<>>
      [] name = "gsheets_set_auth_code" ->
            <<Await("auth.getToken", "", [code |-> a.code])>>
      [] name = "gdrive_search" ->
            <<Await("files.list", "",
                    [q |-> a.query.v, pageSize |-> a.pageSize, pageToken |-> a.pageToken])>>
      [] name = "gdrive_read_file" ->
            <<Await("files.get", a.fileId.v, [fields |-> "name, mimeType, size"]),
              ReadContent(a.fileId.v, got.mimeType)>>
      [] name = "gdrive_get_file_info" ->
            <<Await("files.get", a.fileId.v, [fields |-> "id, name, mimeType, ..."])>>
      [] name = "gdrive_move_file" ->
            <<Await("files.get", a.fileId.v, [fields |-> "id, name, parents"]),
              Await("files.update", a.fileId.v,
                    [addParents |-> a.targetFolderId.v,
                     removeParents |-> previousParents(got.parents)])>>
      [] name = "gdrive_create_folder" ->
            <<Await("files.create", "",
                    [name |-> a.name.v,
                     parents |-> IF Truthy(a.parentFolderId)
                                 THEN <<a.parentFolderId.v>> ELSE <<RootId>>])>>
      [] name = "gdrive_search_content" ->
            <<Await("files.list", "",
                    [q |-> a.query.v, folderId |-> a.folderId, pageSize |-> a.maxResults])>>
      [] name = "gdrive_get_revisions" ->
            <<Await("revisions.list", a.fileId.v, [pageSize |-> a.maxResults])>>
      [] name = "gdrive_export_file" ->
            <<Await("files.export", a.fileId.v, [mimeType |-> a.mimeType.v])>>
      [] name = "gdrive_list_permissions" ->
            <<Await("permissions.list", a.fileId.v, NoBody)>>

\* what the handler returns when its try block runs to its end
\* a result that numbers the remote calls of the process
ToolResult_Numbered(name, a, got) ==
    [success |-> TRUE, tool |-> name, id |-> got.id, call |-> Len(calls)]

ToolResult(name, a, got) ==
    CASE name = "gdrive_search" -> [found |-> Len(got.data), files |-> got.data]
      [] name = "gdrive_get_file_info" -> [info |-> got.data[1]]
      [] name = "gdocs_get_document" -> [document |-> got.data[1].title]
      [] name = "gdrive_list_permissions" ->
            [success |-> TRUE, fileId |-> a.fileId.v,
             permissionCount |-> Len(got.data), permissions |-> got.data]
      [] OTHER -> [success |-> TRUE, tool |-> name, id |-> got.id]

\* The local code of a handler from the return of its step-th remote call:
\* the next call it awaits, the envelope it returns, or its catch.
Advance(name, a, step, got) ==
    LET steps == Steps(name, a, got) IN
    IF step >= Len(steps)
    THEN [pc |-> "done", response |-> Envelope(ToolResult(name, a, got))]
    ELSE IF steps[step + 1].api = "throw"
         THEN HandlerCatch(name, steps[step + 1].message)
         ELSE [pc |-> "tool.await", response |-> NoResponse]

\* The call-tool callback for a tool that is not composite: the switch, the
\* validation, and the handler up to its first remote call; the catch of
\* the callback for what validation or the default case throws.
DispatchTool ==
    /\ pc = "call"
    /\ request.name \notin CompositeTools
    /\ LET r == Validate(request.name, request.arguments) IN
         IF r.ok
         THEN LET c == Advance(request.name, r.value, 0, NoGot) IN
              /\ local' = [args |-> r.value, step |-> 0, got |-> NoGot]
              /\ pc' = c.pc
              /\ response' = IF c.pc = "tool.await" THEN response ELSE c.response
         ELSE /\ local' = local
              /\ pc' = "done"
              /\ response' = DispatchError(r.message)
    /\ UNCHANGED <<tools, a1Range, gridRange, request, drive, calls, batch, stack, auth, served, second>>

\* whether the service can serve the call: the file it names exists
CanServe(d, step) ==
    CASE step.api \in {"files.get", "files.export", "revisions.list", "permissions.list",
                       "docs.get"} ->
            Exists(d, step.fileId)
      [] step.api = "files.update" ->
            Exists(d, step.fileId) /\ Exists(d, step.body.addParents)
      [] step.api = "files.create" ->
            step.body.parents[1] = RootId \/ Exists(d, step.body.parents[1])
      [] OTHER -> TRUE

\* the store after the call has been served
Served(d, step) ==
    CASE step.api = "files.update" ->
            UpdateParents(d, step.fileId, step.body.addParents, step.body.removeParents)
      [] step.api = "files.create" ->
            Append(d, Node(FreshId(d), step.body.name, FolderMime, step.body.parents, FALSE))
      [] step.api = "sheets.create" ->
            Append(d, Node(FreshId(d), step.body.title, SpreadsheetMime, <<RootId>>, FALSE))
      [] step.api = "docs.create" ->
            Append(d, Node(FreshId(d), step.body.title, DocumentMime, <<RootId>>, FALSE))
      [] OTHER -> d

\* id, name and mimeType of a file, as the service returns them
Metadata(node) == [id |-> node.id, name |-> node.name, mimeType |-> node.mimeType]

\* the files the service lists for a query: the files of the drive that are
\* not trashed, in the order of the store
Listed(d) ==
    LET kept == SelectSeq(d, LAMBDA node : ~node.trashed)
    IN  [k \in 1..Len(kept) |-> Metadata(kept[k])]

\* the permissions of a file: the one of its owner
Permissions(node) == <<[id |-> "owner", type |-> "user", role |-> "owner"]>>

\* what the handler keeps of the response
Got(d, step, got) ==
    CASE step.api \in {"files.create", "sheets.create", "docs.create"} ->
            [got EXCEPT !.id = FreshId(d)]
      [] step.api = "files.get" /\ "alt" \notin DOMAIN step.body ->
            [got EXCEPT !.mimeType = Lookup(d, step.fileId).mimeType,
                        !.parents = Lookup(d, step.fileId).parents,
                        !.data = <<Metadata(Lookup(d, step.fileId))>>]
      [] step.api = "files.list" -> [got EXCEPT !.data = Listed(d)]
      [] step.api = "docs.get" ->
            [got EXCEPT !.data = <<[title |-> Lookup(d, step.fileId).name]>>]
      [] step.api = "permissions.list" ->
            [got EXCEPT !.data = Permissions(Lookup(d, step.fileId))]
      [] OTHER -> got

\* the tokens the identity provider returns for an authorization code
ExchangedTokens == [refresh_token |-> "exchanged"]

\* the remote call a handler awaits and its local code up to the next one;
\* getTokensFromCode sets the credentials when getToken has returned
ToolAwait ==
    /\ pc = "tool.await"
    /\ LET name == request.name
           step == Steps(name, local.args, local.got)[local.step + 1]
       IN
       \E outcome \in Outcomes({"ok", "error"}, CanServe(drive, step)) :
         /\ calls' = Append(calls,
                Call(step.api, step.fileId, outcome, step.body,
                     IF outcome = "ok" /\ step.api \in {"files.create", "sheets.create",
                                                        "docs.create"}
                     THEN FreshId(drive) ELSE ""))
         /\ IF outcome = "ok"
            THEN LET got == Got(drive, step, local.got)
                     c == Advance(name, local.args, local.step + 1, got)
                 IN  /\ drive' = Served(drive, step)
                     /\ auth' = IF step.api = "auth.getToken" THEN ExchangedTokens ELSE auth
                     /\ local' = [local EXCEPT !.step = @ + 1, !.got = got]
                     /\ pc' = c.pc
                     /\ response' = IF c.pc = "tool.await" THEN response ELSE c.response
            ELSE LET c == HandlerCatch(name, "Error: " \o RemoteError)
                 IN  /\ drive' = drive
                     /\ auth' = auth
                     /\ local' = local
                     /\ pc' = c.pc
                     /\ response' = c.response
    /\ UNCHANGED <<tools, a1Range, gridRange, request, batch, stack, served, second>>

----------------------------------------------------------------------------
(* The batch tools on a small drive: two folders, a target folder and two  *)
(* files, one of them with two parents.  "gone" is an id of no file.       *)

BatchFileIds == {"f1", "f2", "gone"}

BatchDrive ==
    << Node("p1", "Inbox", FolderMime, <<RootId>>, FALSE),
       Node("p2", "Shared", FolderMime, <<RootId>>, FALSE),
       Node("t", "Archive", FolderMime, <<RootId>>, FALSE),
       Node("f1", "a.txt", FileMime, <<"p1">>, FALSE),
       Node("f2", "b.txt", FileMime, <<"p1", "p2">>, FALSE) >>

BatchFileIdArgs == {Undef} \cup {Arr(s) : s \in SeqsUpTo(BatchFileIds, MaxIds)}

BatchMoveArguments ==
    {Undef} \cup
    {Obj([fileIds |-> ids, targetFolderId |-> tgt, format |-> Undef]) :
        ids \in BatchFileIdArgs, tgt \in {Undef, Str(""), Str("t")}}

BatchExportArguments ==
    {Undef} \cup
    {Obj([fileIds |-> ids, targetFolderId |-> Undef, format |-> fmt]) :
        ids \in BatchFileIdArgs,
        fmt \in {Undef, Str("txt")} \cup {Str(ExportFormats[k]) : k \in 1..Len(ExportFormats)}}

InitBatch ==
    /\ \/ /\ request \in [name : {"gdrive_batch_move"}, arguments : BatchMoveArguments]
       \/ /\ request \in [name : {"gdrive_batch_export"}, arguments : BatchExportArguments]
    /\ pc = "call"
    /\ response = NoResponse
    /\ drive = BatchDrive
    /\ calls = <<>>
    /\ batch = NoBatch
    /\ stack = <<>>
    /\ local = NoLocal
    /\ auth = EnvCredentials
    /\ served = 0
    /\ second = NoSecond
    /\ a1Range = <<>>
    /\ gridRange = NoGridRange
    /\ tools = NoTools

NextBatch ==
    \/ DispatchBatchMove
    \/ BatchMoveGet
    \/ BatchMoveUpdate
    \/ DispatchBatchExport
    \/ BatchExport

SpecBatch == InitBatch /\ [][NextBatch]_vars

----------------------------------------------------------------------------
(* The folder copy on every tree of at most MaxNodes files and folders     *)
(* below the source folder "s".  A node lies in "s" or in a folder listed  *)
(* before it; whatever lies in a trashed folder is trashed with it.  "t"   *)
(* is a folder outside the source, "gone" the id of no file.  The copy can *)
(* be asked for outside the source or in the source folder itself; the     *)
(* latter is followed on the source folder without entries.                *)

NodeNames == <<"a", "b", "c", "d", "e">>

\* the trees of exactly k nodes, as the nodes in listing order
\* the folders of tree t a further node can lie in
Folders(t) == {"s"} \cup {t[j].id : j \in {i \in 1..Len(t) : t[i].mimeType = FolderMime}}

\* the trashed flags a node in folder parent can have
TrashedFlags(t, parent) ==
    {b \in BOOLEAN : \A j \in 1..Len(t) : (t[j].id = parent /\ t[j].trashed) => b}

\* the nodes that can be listed after the nodes of t
NextNodes(t) ==
    UNION {
        {Node("n" \o ToString(Len(t) + 1), NodeNames[Len(t) + 1], mime, <<parent>>, trashed)
           : mime \in {FolderMime, FileMime}, trashed \in TrashedFlags(t, parent)}
        : parent \in Folders(t)}

RECURSIVE Trees(_)
Trees(k) ==
    IF k = 0 THEN {<<>>}
    ELSE UNION {{Append(t, n) : n \in NextNodes(t)} : t \in Trees(k - 1)}

CopyDrives ==
    {<< Node("t", "Target", FolderMime, <<RootId>>, FALSE),
        Node("s", "Src", FolderMime, <<RootId>>, FALSE) >> \o t
       : t \in UNION {Trees(k) : k \in 0..MaxNodes}}

\* the copy of the source folder asked for in the source folder
IntoItself ==
    Obj([sourceFolderId |-> Str("s"), targetParentFolderId |-> Str("s"), newName |-> Undef])

CopyFolderArguments ==
    {Undef, Obj([sourceFolderId |-> Undef, targetParentFolderId |-> Undef, newName |-> Undef]),
     Obj([sourceFolderId |-> Str("s"), targetParentFolderId |-> Num(7), newName |-> Undef]),
     Obj([sourceFolderId |-> Str("s"), targetParentFolderId |-> Undef, newName |-> Num(7)]),
     Obj([sourceFolderId |-> Str("gone"), targetParentFolderId |-> Undef, newName |-> Undef]),
     Obj([sourceFolderId |-> Str("s"), targetParentFolderId |-> Undef, newName |-> Undef]),
     Obj([sourceFolderId |-> Str("s"), targetParentFolderId |-> Str("t"), newName |-> Str("Backup")]),
     Obj([sourceFolderId |-> Str("s"), targetParentFolderId |-> Str("t"), newName |-> Str("")]),
     IntoItself}

InitCopy ==
    /\ request \in [name : {"gdrive_copy_folder"}, arguments : CopyFolderArguments]
    /\ pc = "call"
    /\ response = NoResponse
    /\ drive \in CopyDrives
    /\ request.arguments = IntoItself => Len(drive) = 2
    /\ calls = <<>>
    /\ batch = NoBatch
    /\ stack = <<>>
    /\ local = NoLocal
    /\ auth = EnvCredentials
    /\ served = 0
    /\ second = NoSecond
    /\ a1Range = <<>>
    /\ gridRange = NoGridRange
    /\ tools = NoTools

NextCopy ==
    \/ DispatchCopyFolder
    \/ CopyFolderGet
    \/ CopyFolderCreate
    \/ CopyFolderList
    \/ CopyFolderFile

SpecCopy == InitCopy /\ [][NextCopy]_vars

\* The tree listing on the same drives: of the source folder "s", of the
\* id of no folder, with and without the two optional flags.
ListFolderTreeArguments ==
    {Undef, Obj([folderId |-> Undef, recursive |-> Undef, includeMetadata |-> Undef]),
     Obj([folderId |-> Num(7), recursive |-> Undef, includeMetadata |-> Undef]),
     Obj([folderId |-> Str("gone"), recursive |-> Undef, includeMetadata |-> Undef])}
    \cup {Obj([folderId |-> Str("s"), recursive |-> r, includeMetadata |-> m])
            : r \in {Undef, Bool(TRUE), Bool(FALSE)}, m \in {Undef, Bool(TRUE)}}

InitTree ==
    /\ request \in [name : {"gdrive_list_folder_tree"}, arguments : ListFolderTreeArguments]
    /\ pc = "call"
    /\ response = NoResponse
    /\ drive \in CopyDrives
    /\ calls = <<>>
    /\ batch = NoBatch
    /\ stack = <<>>
    /\ local = NoLocal
    /\ auth = EnvCredentials
    /\ served = 0
    /\ second = NoSecond
    /\ a1Range = <<>>
    /\ gridRange = NoGridRange
    /\ tools = NoTools

NextTree ==
    \/ DispatchListFolderTree
    \/ TreeList

SpecTree == InitTree /\ [][NextTree]_vars

\* The other tools on a small drive: a folder, a text file in it, a
\* document, a spreadsheet and an image.  Each tool is called with arguments
\* its validator accepts and with every one of them left out or replaced by
\* a value of another type or an empty one.
ToolsDrive ==
    << Node("t", "Archive", FolderMime, <<RootId>>, FALSE),
       Node("f1", "a.txt", FileMime, <<RootId>>, FALSE),
       Node("doc", "Notes", DocumentMime, <<RootId>>, FALSE),
       Node("sheet", "Budget", SpreadsheetMime, <<RootId>>, FALSE),
       Node("img", "logo.png", "image/png", <<RootId>>, FALSE) >>

\* the letters of the column with index n - 1
RECURSIVE ColumnLetters(_)
ColumnLetters(n) ==
    IF n = 0 THEN <<>>
    ELSE ColumnLetters((n - 1) \div 26) \o <<UpperCase[((n - 1) % 26) + 1]>>

\* the decimal digits of n
RECURSIVE Decimal(_)
Decimal(n) ==
    IF n < 10 THEN <<DecimalDigits[n + 1]>>
    ELSE Decimal(n \div 10) \o <<DecimalDigits[(n % 10) + 1]>>

\* the cell of column index c and row number r
Cell(c, r) == ColumnLetters(c + 1) \o Decimal(r)

CellRange(c1, r1, c2, r2) == Cell(c1, r1) \o <<":">> \o Cell(c2, r2)

Bold == Obj([bold |-> Bool(TRUE)])

Probe == {Undef, Str(""), Str("3"), Num(0), Num(7), Arr(<<>>), Bool(TRUE), Bold}

GoodUpdate == Obj([range |-> Str("A1:B2"), values |-> Arr(<<>>)])

GoodFormatRequest == Obj([range |-> Str(CellRange(0, 1, 1, 2)), format |-> Bold])

\* ranges of formatting requests: two that a1ToGridRange reads, and texts
\* without a colon, without row digits, with a sheet name, in lower case
FormatRanges ==
    {CellRange(0, 1, 1, 2), CellRange(26, 10, 27, 10),
     <<"A", "1", "B", "2">>, <<"A", ":", "B">>, <<"A", "1", ":", "B">>,
     <<"S", "h", "e", "e", "t", "1", "!", "A", "1">>, <<"a", "1", ":", "b", "2">>, <<>>}

\* a formatting request: a range of those, or none, or a number, with a
\* format or without
FormatRequests ==
    {Obj([range |-> range, format |-> format]) :
        range \in {Str(r) : r \in FormatRanges} \cup {Undef, Num(7)},
        format \in {Bold, Undef}}

\* the requests arrays of one and of two requests
FormatRequestLists == {Arr(l) : l \in SeqsUpTo(FormatRequests, 2) \ {<<>>}}

GoodArguments(name) ==
    CASE name = "gsheets_batch_update" ->
            [spreadsheetId |-> Str("sheet"), updates |-> Arr(<<GoodUpdate>>)]
      [] name = "gsheets_create_and_populate" ->
            [title |-> Str("Plan"), sheetTitle |-> Undef, data |-> Arr(<<Str("x")>>),
             parentFolderId |-> Undef]
      [] name = "gsheets_append_rows" ->
            [spreadsheetId |-> Str("sheet"), range |-> Str("A1:B2"), values |-> Arr(<<Str("x")>>)]
      [] name = "gsheets_format_cells" ->
            [spreadsheetId |-> Str("sheet"), requests |-> Arr(<<GoodFormatRequest>>)]
      [] name = "gdocs_create_document" ->
            [title |-> Str("Plan"), content |-> Undef, parentFolderId |-> Undef]
      [] name = "gdocs_get_document" -> [documentId |-> Str("doc")]
      [] name \in {"gdocs_insert_text", "gdocs_append_text"} ->
            [documentId |-> Str("doc"), text |-> Str("hi"), index |-> Undef]
      [] name = "gdocs_replace_text" ->
            [documentId |-> Str("doc"), find |-> Str("a"), replace |-> Str("b")]
      [] name = "gdocs_format_text" ->
            [documentId |-> Str("doc"), startIndex |-> Num(0), endIndex |-> Num(7),
             format |-> Bold]
      [] name = "gdocs_set_heading" ->
            [documentId |-> Str("doc"), startIndex |-> Num(0), endIndex |-> Num(7),
             format |-> Bold, headingLevel |-> Num(3)]
      [] name = "gsheets_get_auth_url" -> [code |-> Undef]
      [] name = "gsheets_set_auth_code" -> [code |-> Str("4/abc")]
      [] name = "gdrive_search" ->
            [query |-> Str("name contains 'a'"), pageSize |-> Undef, pageToken |-> Undef]
      [] name \in {"gdrive_read_file", "gdrive_get_file_info", "gdrive_list_permissions"} ->
            [fileId |-> Str("f1")]
      [] name = "gdrive_move_file" -> [fileId |-> Str("f1"), targetFolderId |-> Str("t")]
      [] name = "gdrive_create_folder" -> [name |-> Str("New"), parentFolderId |-> Undef]
      [] name = "gdrive_search_content" ->
            [query |-> Str("budget"), folderId |-> Undef, maxResults |-> Undef]
      [] name = "gdrive_get_revisions" -> [fileId |-> Str("f1"), maxResults |-> Undef]
      [] name = "gdrive_export_file" ->
            [fileId |-> Str("doc"), mimeType |-> Str("application/pdf")]
      [] OTHER -> [fileId |-> Str("f1")]

\* further values of single arguments: files of every kind, optional
\* arguments given, array elements the handler or the validator rejects
FurtherValues(name) ==
    CASE name = "gsheets_batch_update" ->
            [updates |-> {Arr(<<GoodUpdate, Num(7)>>),
                          Arr(<<Obj([range |-> Undef, values |-> Arr(<<>>)])>>),
                          Arr(<<GoodUpdate, Obj([range |-> Str("C1"), values |-> Undef])>>)}]
      [] name = "gsheets_create_and_populate" ->
            [sheetTitle |-> {Str("Q1")}, parentFolderId |-> {Str("t")}]
      [] name = "gsheets_format_cells" ->
            [requests |-> FormatRequestLists]
      [] name = "gdocs_create_document" ->
            [content |-> {Str("hello"), Str(" ")}, parentFolderId |-> {Str("t")}]
      [] name = "gdocs_insert_text" -> [index |-> {Num(5)}]
      [] name = "gdrive_search" -> [pageSize |-> {Num(50)}, pageToken |-> {Str("next")}]
      [] name = "gdrive_read_file" -> [fileId |-> {Str("doc"), Str("sheet"), Str("img"), Str("gone")}]
      [] name = "gdrive_create_folder" -> [parentFolderId |-> {Str("t")}]
      [] name = "gdrive_search_content" -> [folderId |-> {Str("t")}, maxResults |-> {Num(5)}]
      [] name = "gdrive_get_revisions" -> [maxResults |-> {Num(5)}]
      [] OTHER -> [none |-> {}]

ToolArguments(name) ==
    LET good == GoodArguments(name)
        further == FurtherValues(name)
    IN  {Undef, Obj(good)}
        \cup {Obj([good EXCEPT ![f] = b]) : f \in DOMAIN good, b \in Probe}
        \cup UNION {{Obj([good EXCEPT ![f] = b]) : b \in further[f]}
                      : f \in DOMAIN further \cap DOMAIN good}

\* names the switch of the dispatcher has no case for: a tool the server
\* does not have, and the name of one it has in another case
UnknownTools == {"gdrive_delete_file", "GDRIVE_SEARCH"}

ToolRequests ==
    UNION {{[name |-> name, arguments |-> a] : a \in ToolArguments(name)}
             : name \in (Range(Catalogue) \ CompositeTools) \cup UnknownTools}

InitTools ==
    /\ request \in ToolRequests
    /\ pc = "call"
    /\ response = NoResponse
    /\ drive = ToolsDrive
    /\ calls = <<>>
    /\ batch = NoBatch
    /\ stack = <<>>
    /\ local = NoLocal
    /\ auth = EnvCredentials
    /\ served = 0
    /\ second = NoSecond
    /\ a1Range = <<>>
    /\ gridRange = NoGridRange
    /\ tools = NoTools

NextTools ==
    \/ DispatchTool
    \/ ToolAwait

SpecTools == InitTools /\ [][NextTools]_vars

----------------------------------------------------------------------------
(* Two invocations of the request handler.  setRequestHandler registers an *)
(* async function (line 1112); the server calls it for each request that   *)
(* arrives, and nothing in the function or in the handlers waits for an    *)
(* earlier invocation: a second invocation runs whenever the first is      *)
(* suspended at an await.  The first invocation is the one of request, pc  *)
(* and local; second holds the same for the other.                         *)

\* a remote call of the second invocation in the log
SecondCall(api, fileId, outcome, body, result) ==
    [Call(api, fileId, outcome, body, result) EXCEPT !.invocation = 2]

PairDrive ==
    << Node("p1", "Inbox", FolderMime, <<RootId>>, FALSE),
       Node("t", "Archive", FolderMime, <<RootId>>, FALSE),
       Node("u", "Urgent", FolderMime, <<RootId>>, FALSE),
       Node("f1", "a.txt", FileMime, <<"p1">>, FALSE),
       Node("f2", "b.txt", FileMime, <<"p1">>, FALSE),
       Node("doc", "Notes", DocumentMime, <<RootId>>, FALSE) >>

\* the operations that only read
ReadOnlyTools ==
    {"gdrive_search", "gdrive_get_file_info", "gdocs_get_document", "gdrive_list_permissions"}

\* moves of one of two files into one of two folders, one of no file, a
\* call without arguments, and the operations that only read
PairRequests ==
    {[name |-> "gdrive_move_file", arguments |-> a] :
        a \in {Undef} \cup
              {Obj([fileId |-> Str(f), targetFolderId |-> Str(tgt)]) :
                  f \in {"f1", "f2", "gone"}, tgt \in {"t", "u"}}}
    \cup {[name |-> name, arguments |-> Obj(GoodArguments(name))] : name \in ReadOnlyTools}
    \cup {[name |-> "gdrive_get_file_info", arguments |-> Obj([fileId |-> Str("f2")])]}

\* the server calls the request handler for a second request while the
\* first invocation is suspended or has returned: the switch of the
\* dispatcher and the handler up to its first await
SecondArrive ==
    /\ pc # "call"
    /\ second.pc = "idle"
    /\ \E req \in PairRequests :
         LET r == Validate(req.name, req.arguments) IN
         IF r.ok
         THEN LET c == Advance(req.name, r.value, 0, NoGot) IN
              second' = [pc |-> c.pc, request |-> req,
                         local |-> [args |-> r.value, step |-> 0, got |-> NoGot],
                         response |-> c.response]
         ELSE second' = [pc |-> "done", request |-> req, local |-> NoLocal,
                         response |-> DispatchError(r.message)]
    /\ UNCHANGED <<tools, a1Range, gridRange, request, pc, response, drive, calls, batch, stack, local, auth, served>>

\* the remote call the second invocation awaits and its local code up to
\* the next one
SecondAwait ==
    /\ second.pc = "tool.await"
    /\ LET name == second.request.name
           step == Steps(name, second.local.args, second.local.got)[second.local.step + 1]
       IN
       \E outcome \in Outcomes({"ok", "error"}, CanServe(drive, step)) :
         /\ calls' = Append(calls,
                SecondCall(step.api, step.fileId, outcome, step.body,
                     IF outcome = "ok" /\ step.api \in {"files.create", "sheets.create",
                                                        "docs.create"}
                     THEN FreshId(drive) ELSE ""))
         /\ IF outcome = "ok"
            THEN LET got == Got(drive, step, second.local.got)
                     c == Advance(name, second.local.args, second.local.step + 1, got)
                 IN  /\ drive' = Served(drive, step)
                     /\ auth' = IF step.api = "auth.getToken" THEN ExchangedTokens ELSE auth
                     /\ second' = [second EXCEPT !.local.step = @ + 1, !.local.got = got,
                                                 !.pc = c.pc, !.response = c.response]
            ELSE LET c == HandlerCatch(name, "Error: " \o RemoteError)
                 IN  /\ drive' = drive
                     /\ auth' = auth
                     /\ second' = [second EXCEPT !.pc = c.pc, !.response = c.response]
    /\ UNCHANGED <<tools, a1Range, gridRange, request, pc, response, batch, stack, local, served>>

InitPair ==
    /\ request \in PairRequests
    /\ pc = "call"
    /\ response = NoResponse
    /\ drive = PairDrive
    /\ calls = <<>>
    /\ batch = NoBatch
    /\ stack = <<>>
    /\ local = NoLocal
    /\ auth = EnvCredentials
    /\ served = 0
    /\ second = NoSecond
    /\ a1Range = <<>>
    /\ gridRange = NoGridRange
    /\ tools = NoTools

NextPair ==
    \/ DispatchTool
    \/ ToolAwait
    \/ SecondArrive
    \/ SecondAwait

SpecPair == InitPair /\ [][NextPair]_vars

----------------------------------------------------------------------------
(* A session: the server answers one call after the other.  The drive and  *)
(* the credentials of this.auth outlive each call; the locals of a handler *)
(* do not.                                                                 *)

SessionRequests ==
    {[name |-> name, arguments |-> Obj(GoodArguments(name))] :
        name \in {"gsheets_get_auth_url", "gsheets_set_auth_code", "gdrive_get_file_info",
                  "gdrive_move_file", "gdrive_create_folder", "gdocs_get_document"}}
    \cup {[name |-> "gsheets_set_auth_code", arguments |-> Obj([code |-> Undef])]}

\* the next call arrives after the response to the one before
NextCall ==
    /\ pc = "done"
    /\ served < MaxCalls
    /\ request' \in SessionRequests
    /\ pc' = "call"
    /\ response' = NoResponse
    /\ calls' = <<>>
    /\ local' = NoLocal
    /\ served' = served + 1
    /\ UNCHANGED <<tools, a1Range, gridRange, drive, batch, stack, auth, second>>

InitSession ==
    /\ request \in SessionRequests
    /\ pc = "call"
    /\ response = NoResponse
    /\ drive = ToolsDrive
    /\ calls = <<>>
    /\ batch = NoBatch
    /\ stack = <<>>
    /\ local = NoLocal
    /\ auth = EnvCredentials
    /\ served = 0
    /\ second = NoSecond
    /\ a1Range = <<>>
    /\ gridRange = NoGridRange
    /\ tools = NoTools

NextSession ==
    \/ DispatchTool
    \/ ToolAwait
    \/ NextCall

SpecSession == InitSession /\ [][NextSession]_vars

----------------------------------------------------------------------------
(* a1ToGridRange on the ranges between two cells of the columns up to      *)
(* MaxCol and the rows up to MaxRow (row 0 included, in either order of    *)
(* the two cells), on ranges with a leading zero in a row number, and on   *)
(* texts that are no range: a part left out, another separator, a lower-   *)
(* case column, absolute references, a sheet name before the range.        *)

CellRanges ==
    {CellRange(c1, r1, c2, r2) : c1 \in 0..MaxCol, r1 \in 0..MaxRow,
                                c2 \in 0..MaxCol, r2 \in 0..MaxRow}

\* row numbers written with a leading zero
PaddedRanges ==
    {ColumnLetters(c + 1) \o <<"0">> \o Decimal(r) \o <<":">> \o Cell(c, r) : c \in 0..1, r \in 0..2}
    \cup {Cell(c, r) \o <<":">> \o ColumnLetters(c + 1) \o <<"0">> \o Decimal(r) : c \in 0..1, r \in 0..2}

NotRanges ==
    {<<>>, <<":">>, <<"A">>, <<"1">>, <<"A", ":", "B">>, <<"1", ":", "2">>}
    \cup UNION {
        {Cell(c1, r1),
         Cell(c1, r1) \o Cell(c2, r2),
         Cell(c1, r1) \o <<":">>,
         <<":">> \o Cell(c2, r2),
         Cell(c1, r1) \o <<"-">> \o Cell(c2, r2),
         Cell(c1, r1) \o <<":">> \o <<":">> \o Cell(c2, r2),
         ColumnLetters(c1 + 1) \o <<":">> \o Cell(c2, r2),
         Cell(c1, r1) \o <<":">> \o ColumnLetters(c2 + 1),
         Decimal(r1) \o <<":">> \o Cell(c2, r2),
         Cell(c1, r1) \o <<":">> \o Decimal(r2),
         Decimal(r1) \o ColumnLetters(c1 + 1) \o <<":">> \o Cell(c2, r2),
         <<"a">> \o Decimal(r1) \o <<":">> \o Cell(c2, r2),
         Cell(c1, r1) \o <<":">> \o <<"b">> \o Decimal(r2),
         <<"$">> \o Cell(c1, r1) \o <<":">> \o Cell(c2, r2),
         ColumnLetters(c1 + 1) \o <<"$">> \o Decimal(r1) \o <<":">> \o Cell(c2, r2),
         <<"S", "!">> \o CellRange(c1, r1, c2, r2),
         <<" ">> \o CellRange(c1, r1, c2, r2),
         CellRange(c1, r1, c2, r2) \o <<" ">>,
         CellRange(c1, r1, c2, r2) \o <<"\n">>,
         Cell(c1, r1) \o <<":">> \o ColumnLetters(c2 + 1) \o <<"-">> \o Decimal(r2)}
        : c1 \in {0, 26}, r1 \in {0, 2}, c2 \in {1}, r2 \in {3}}

A1Inputs == CellRanges \cup PaddedRanges \cup NotRanges

\* one call of a1ToGridRange: it returns the grid range or throws
A1Call ==
    /\ pc = "a1.call"
    /\ gridRange' = a1ToGridRange(a1Range)
    /\ pc' = IF gridRange'.ok THEN "a1.returned" ELSE "a1.thrown"
    /\ UNCHANGED <<tools, request, response, drive, calls, batch, stack, local, auth, served,
                   second, a1Range>>

InitA1 ==
    /\ a1Range \in A1Inputs
    /\ gridRange = NoGridRange
    /\ tools = NoTools
    /\ pc = "a1.call"
    /\ request = [name |-> "", arguments |-> Undef]
    /\ response = NoResponse
    /\ drive = <<>>
    /\ calls = <<>>
    /\ batch = NoBatch
    /\ stack = <<>>
    /\ local = NoLocal
    /\ auth = EnvCredentials
    /\ served = 0
    /\ second = NoSecond

NextA1 == A1Call

SpecA1 == InitA1 /\ [][NextA1]_vars

Init == InitBatch \/ InitCopy \/ InitTree \/ InitTools

Next == NextBatch \/ NextCopy \/ NextTree \/ NextTools

Spec == Init /\ [][Next]_vars

----------------------------------------------------------------------------
(* A client that may ask for the listing before its call is dispatched.    *)
(* The handler of the list-tools request returns the tools with their      *)
(* names, descriptions and schemas; the client keeps the names.            *)

\* the handler of ListToolsRequestSchema: `return {tools: [...]}`
ListTools ==
    /\ pc = "call"
    /\ tools = NoTools
    /\ tools' = Catalogue
    /\ UNCHANGED <<a1Range, gridRange, request, pc, response, drive, calls, batch, stack,
                   local, auth, served, second>>

NextListing == ListTools \/ Next

SpecListing == Init /\ [][NextListing]_vars

----------------------------------------------------------------------------
(* What the batch claims speak of.                                         *)

BatchTools == {"gdrive_batch_move", "gdrive_batch_export"}

\* a batch call that passed validation and has returned
BatchDone == pc = "done" /\ request.name \in BatchTools /\ batch.i > 0

\* the fileIds argument of such a call
InputIds == request.arguments.v.fileIds.v

\* the ids listed in details.success and in details.failed of the response
SuccessIds ==
    LET l == response.text.details.success IN
    [k \in 1..Len(l) |-> IF request.name = "gdrive_batch_export" THEN l[k].fileId ELSE l[k]]

FailedIds ==
    LET l == response.text.details.failed IN [k \in 1..Len(l) |-> l[k].fileId]

\* movedCount of a batch move, exportedCount of a batch export
DoneCount ==
    IF request.name = "gdrive_batch_export"
    THEN response.text.exportedCount ELSE response.text.movedCount

\* the first remote call of each attempt of a batch call, in the order issued
FirstCallApi == IF request.name = "gdrive_batch_export" THEN "files.export" ELSE "files.get"

Attempts == SelectSeq(calls, LAMBDA c : c.api = FirstCallApi)

AttemptedIds == [k \in 1..Len(Attempts) |-> Attempts[k].fileId]

FailedCalls == {k \in 1..Len(calls) : calls[k].outcome # "ok"}

BatchCounts ==
    /\ DoneCount = Len(SuccessIds)
    /\ response.text.failedCount = Len(FailedIds)
    /\ DoneCount + response.text.failedCount = Len(InputIds)

\* N ids of which exactly one fails, in its first call: N-1 succeed, the one is in failed
OneFailingFetch ==
    \A k \in FailedCalls :
        (FailedCalls = {k} /\ calls[k].api = FirstCallApi)
            => /\ DoneCount = Len(InputIds) - 1
               /\ response.text.failedCount = 1
               /\ FailedIds = <<calls[k].fileId>>
               /\ response.text.details.failed[1].error = RemoteError

\* C1 as stated: when a batch move or batch export completes, every input id
\* is in exactly one of details.success and details.failed, the counts are
\* the sizes of the two lists and sum to the number of input ids, and one
\* failing fetch among N ids gives N-1 and 1.
C1_EveryIdInExactlyOneList ==
    BatchDone =>
        /\ \A id \in Range(InputIds) : (id \in Range(SuccessIds)) # (id \in Range(FailedIds))
        /\ BatchCounts
        /\ OneFailingFetch

\* C1 amended: every position of the input list contributes exactly one
\* entry, to exactly one of details.success and details.failed (so an id that
\* occurs once in the input is in exactly one of them, while an id given
\* twice can be in both); the counts are the sizes of the two lists and sum
\* to the number of input ids; one failing fetch among N ids gives N-1 and 1.
C1_EveryPositionInExactlyOneList ==
    BatchDone =>
        /\ \A id \in Range(InputIds) \cup Range(SuccessIds) \cup Range(FailedIds) :
              /\ Occurrences(SuccessIds, id) + Occurrences(FailedIds, id)
                    = Occurrences(InputIds, id)
              /\ Occurrences(InputIds, id) = 1
                    => (id \in Range(SuccessIds)) # (id \in Range(FailedIds))
        /\ BatchCounts
        /\ OneFailingFetch

\* three ids, the fetch of one of them fails, the other two are moved
C1_Witness ==
    /\ BatchDone
    /\ request.name = "gdrive_batch_move"
    /\ Len(InputIds) = 3
    /\ Cardinality(Range(InputIds)) = 3
    /\ Cardinality(FailedCalls) = 1
    /\ response.text.movedCount = 2
    /\ response.text.failedCount = 1

\* C2: a batch call attempts the ids one position after the other in input
\* order and each position exactly once: the first calls issued so far are
\* for a prefix of the input list, the whole list once the call has
\* returned; an update is issued only right after the successful fetch of
\* the same position; so no failure stops the later ids and nothing is retried.
C2_AttemptsInInputOrder ==
    (request.name \in BatchTools /\ batch.i > 0) =>
        /\ Len(AttemptedIds) <= Len(InputIds)
        /\ AttemptedIds = SubSeq(InputIds, 1, Len(AttemptedIds))
        /\ Len(AttemptedIds) = IF pc = "done" THEN Len(InputIds)
                               ELSE IF pc = "move.update" THEN batch.i ELSE batch.i - 1
        /\ \A k \in 1..Len(calls) :
              calls[k].api = "files.update" =>
                  /\ k > 1
                  /\ calls[k - 1].api = "files.get"
                  /\ calls[k - 1].outcome = "ok"
                  /\ calls[k - 1].fileId = calls[k].fileId
        /\ pc = "done" => Len(calls) <= 2 * Len(InputIds)

\* the first id fails in its fetch, the second in its update, the third is still moved
C2_Witness ==
    /\ BatchDone
    /\ Len(InputIds) = 3
    /\ Len(calls) = 5
    /\ calls[1].outcome = "error"
    /\ calls[3].api = "files.update" /\ calls[3].outcome = "error"
    /\ calls[5].api = "files.update" /\ calls[5].outcome = "ok"

----------------------------------------------------------------------------
(* What the folder-copy claims speak of.                                   *)

\* a folder copy that passed validation
CopyEntered == request.name = "gdrive_copy_folder" /\ Len(stack) > 0

\* ... and has returned
CopyDone == CopyEntered /\ pc = "done"

AllOk == FailedCalls = {}

\* the lookup, the folder creation and the listing of the outermost
\* activation are the first three remote calls of the run
TopCallsOk == Len(calls) >= 3 /\ \A k \in 1..3 : calls[k].outcome = "ok"

\* the ids of the files and folders the run has created
CreatedIds ==
    {calls[k].result : k \in {j \in 1..Len(calls) :
        calls[j].api \in {"files.create", "files.copy"} /\ calls[j].outcome = "ok"}}

\* the nodes the drive held before the call, by position
Originals == {i \in 1..Len(drive) : drive[i].id \notin CreatedIds}

\* the calls of kind api made for the file or folder id
CallsFor(api, id) == {k \in 1..Len(calls) : calls[k].api = api /\ calls[k].fileId = id}

\* the errors list of the response, empty when the property is absent
ResponseErrors == IF response.text.errors = Undef THEN <<>> ELSE response.text.errors.v

\* the children the outermost activation listed
TopListing == stack[1].listing

\* the top-level child c failed: the copy of a file, or the lookup, folder
\* creation or listing of the recursive copy of a sub-folder
TopChildFailed(c) ==
    \E k \in FailedCalls :
        /\ calls[k].fileId = c.id
        /\ IF c.mimeType = FolderMime
           THEN calls[k].depth = 2 /\ calls[k].api \in {"files.get", "files.create", "files.list"}
           ELSE calls[k].depth = 1 /\ calls[k].api = "files.copy"

\* the entries of the errors list that name the child c
ErrorsNaming(c) ==
    {k \in 1..Len(ResponseErrors) :
        ResponseErrors[k] \in
            {"Failed to copy " \o c.name \o ": " \o RemoteError,
             "Failed to copy " \o c.name \o ": No file ID returned"}}

TopChildren(mime, failed) ==
    {j \in 1..Len(TopListing) :
        TopListing[j].mimeType = mime /\ TopChildFailed(TopListing[j]) = failed}

\* C3: a batch move, a batch export or a folder copy in which sub-items fail,
\* even all of them, returns an envelope without isError that carries the
\* breakdown: a batch call that passed validation never returns isError, its
\* details.failed holding one entry per failed call; a folder copy returns
\* isError only if the lookup, creation or listing of the source folder
\* itself failed.
C3_PartialFailureIsNotAnError ==
    /\ BatchDone =>
          /\ ~response.isError
          /\ Len(response.text.details.failed) = Cardinality(FailedCalls)
          /\ response.text.success
    /\ (CopyDone /\ TopCallsOk) =>
          /\ ~response.isError
          /\ response.text.success
          /\ Len(ResponseErrors) =
                Cardinality({k \in FailedCalls : calls[k].depth = 1})

\* every child of the source folder failed, and the response is no error
C3_Witness ==
    /\ CopyDone
    /\ Len(TopListing) = 2
    /\ Len(ResponseErrors) = 2
    /\ response.text.copiedFiles = 0
    /\ ~response.isError

\* C4: when every remote call succeeds, copiedFiles of the response is the
\* number of files copied at every depth and copiedFolders the number of
\* sub-folders copied at every depth (one file and one sub-folder holding
\* one file: copiedFiles = 2, copiedFolders = 1).
C4_CountsCoverEveryDepth ==
    (CopyDone /\ AllOk) =>
        /\ response.text.copiedFiles =
              Cardinality({k \in 1..Len(calls) : calls[k].api = "files.copy"})
        /\ response.text.copiedFolders =
              Cardinality({k \in 1..Len(calls) : calls[k].api = "files.create"}) - 1

\* C5: every child whose copy fails has exactly one entry in the errors list
\* that names it and is not counted in copiedFiles or copiedFolders, be it a
\* file whose remote copy fails or a sub-folder whose recursive copy fails.
C5_FailedChildIsReportedNotCounted ==
    (CopyDone /\ TopCallsOk) =>
        /\ \A j \in 1..Len(TopListing) :
              TopChildFailed(TopListing[j]) => Cardinality(ErrorsNaming(TopListing[j])) = 1
        /\ response.text.copiedFiles = Cardinality(TopChildren(FileMime, FALSE))
        /\ response.text.copiedFolders = Cardinality(TopChildren(FolderMime, FALSE))

\* the attempts an activation at depth d has made since its listing: the
\* copies of its file children and the lookups of its sub-folder children
ListedAt(d) ==
    LET ks == {k \in 1..Len(calls) : calls[k].api = "files.list" /\ calls[k].depth = d}
    IN  CHOOSE k \in ks : \A j \in ks : j <= k

AttemptsOf(d) ==
    LET from == ListedAt(d)
        own == SelectSeq([k \in 1..(Len(calls) - from) |-> calls[from + k]],
                         LAMBDA c : \/ c.depth = d /\ c.api = "files.copy"
                                    \/ c.depth = d + 1 /\ c.api = "files.get")
    IN  [k \in 1..Len(own) |-> own[k].fileId]

ListedIds(f) == [k \in 1..Len(f.listing) |-> f.listing[k].id]

\* C6: a failure while copying one child never aborts the copy: at every
\* depth the children are attempted in listing order whatever the outcome
\* of the earlier ones, and once the call has returned every listed child of
\* the source folder has been attempted and the response is the result for
\* the new folder.
C6_SiblingsAreStillAttempted ==
    CopyEntered =>
        /\ \A d \in 1..Len(stack) :
              stack[d].k > 0 =>
                  /\ Len(AttemptsOf(d)) \in {stack[d].k - 1, stack[d].k}
                  /\ Len(AttemptsOf(d)) <= Len(stack[d].listing)
                  /\ AttemptsOf(d) = SubSeq(ListedIds(stack[d]), 1, Len(AttemptsOf(d)))
        /\ (pc = "done" /\ TopCallsOk) =>
              /\ AttemptsOf(1) = ListedIds(stack[1])
              /\ ~response.isError
              /\ response.text.newFolderId = calls[2].result
              /\ response.text.sourceFilesFound = Len(TopListing)

\* the first of three children fails, the other two are attempted and copied
C6_Witness ==
    /\ CopyDone
    /\ Len(TopListing) = 3
    /\ TopChildFailed(TopListing[1])
    /\ TopListing[1].mimeType = FileMime
    /\ ~TopChildFailed(TopListing[2])
    /\ ~TopChildFailed(TopListing[3])
    /\ response.text.copiedFiles + response.text.copiedFolders = 2

\* C7: if the lookup of sourceFolderId fails, the response is the isError
\* envelope of that failure and no further remote call is issued: nothing is
\* created, listed or copied.
C7_LookupFailureIsTerminal ==
    (CopyEntered /\ Len(calls) > 0 /\ calls[1].outcome # "ok") =>
        /\ pc = "done"
        /\ Len(calls) = 1
        /\ calls[1].api = "files.get"
        /\ calls[1].fileId = request.arguments.v.sourceFolderId.v
        /\ response.isError
        /\ response.text = "Error copying folder: Error: " \o RemoteError
        /\ CreatedIds = {}
        /\ Originals = 1..Len(drive)

\* the lookup of an existing source folder failed
C7_Witness ==
    /\ CopyDone
    /\ Len(calls) = 1
    /\ calls[1].outcome = "error"
    /\ Exists(drive, calls[1].fileId)
    /\ response.isError

\* the id of the copy made of the folder id (of the one folder created for it)
CopyOfFolder(id) == calls[CHOOSE k \in CallsFor("files.create", id) : TRUE].result

\* the nodes of the source tree, by position: all that the drive held before
\* the call but the source folder itself and the folder outside it
SourceNodes == {i \in Originals : drive[i].id \notin {"s", "t"}}

\* the non-trashed node n of the source tree has exactly one copy, of its
\* own kind and name, in the copy of the folder that holds n
CopiedOnce(n) ==
    LET api == IF n.mimeType = FolderMime THEN "files.create" ELSE "files.copy"
        other == IF n.mimeType = FolderMime THEN "files.copy" ELSE "files.create"
    IN  /\ Cardinality(CallsFor(api, n.id)) = 1
        /\ CallsFor(other, n.id) = {}
        /\ Cardinality(CallsFor("files.create", n.parents[1])) = 1
        /\ \A k \in CallsFor(api, n.id) :
              /\ Exists(drive, calls[k].result)
              /\ Lookup(drive, calls[k].result).parents = <<CopyOfFolder(n.parents[1])>>
              /\ Lookup(drive, calls[k].result).mimeType = n.mimeType
              /\ ~Lookup(drive, calls[k].result).trashed

\* nothing was asked of the service about the trashed node n
NotTouched(n) == \A k \in 1..Len(calls) : calls[k].fileId # n.id

DeepCopy ==
    /\ Cardinality(CallsFor("files.create", "s")) = 1
    /\ Lookup(drive, CopyOfFolder("s")).parents =
          NewFolderParents(request.arguments.v.targetParentFolderId)
    /\ \A i \in SourceNodes :
          IF drive[i].trashed THEN NotTouched(drive[i]) ELSE CopiedOnce(drive[i])
    /\ Cardinality(CreatedIds) =
          1 + Cardinality({i \in SourceNodes : ~drive[i].trashed})
    /\ Len(drive) = Cardinality(Originals) + Cardinality(CreatedIds)

\* no step changes or removes a file or folder the drive already holds
SourceUntouched ==
    /\ Len(drive') >= Len(drive)
    /\ \A i \in 1..Len(drive) : drive'[i] = drive[i]

C9_Names ==
    CopyEntered =>
        \A k \in 1..Len(calls) :
            LET c == calls[k]
                given == request.arguments.v.newName
            IN  /\ (c.api = "files.create" /\ c.depth = 1) =>
                      c.body.name = IF given.t = "string" /\ given.v # ""
                                    THEN given.v
                                    ELSE "Copy of " \o Lookup(drive, c.fileId).name
                /\ (c.api = "files.create" /\ c.depth > 1) =>
                      c.body.name = "Copy of " \o Lookup(drive, c.fileId).name
                /\ (c.api = "files.create" /\ c.outcome = "ok") =>
                      Lookup(drive, c.result).name = c.body.name
                /\ c.api = "files.copy" => c.body.name = Lookup(drive, c.fileId).name
                /\ (c.api = "files.copy" /\ c.outcome = "ok") =>
                      Lookup(drive, c.result).name = Lookup(drive, c.fileId).name

\* a copy named by the caller, with a sub-folder and a file in it
C9_Witness ==
    /\ CopyDone
    /\ AllOk
    /\ request.arguments.v.newName = Str("Backup")
    /\ \E k \in 1..Len(calls) :
          calls[k].api = "files.create" /\ calls[k].depth = 2
            /\ calls[k].body.name = "Copy of a"
    /\ \E k \in 1..Len(calls) : calls[k].api = "files.copy" /\ calls[k].body.name = "b"
    /\ response.text.newFolderName = "Backup"

\* the non-trashed children the source folder had before the call
SourceChildren ==
    {i \in Originals : "s" \in Range(drive[i].parents) /\ ~drive[i].trashed}

\* C10: a folder copy of an existing source folder without (non-trashed)
\* children, its remote calls succeeding, creates one folder, the copy of
\* the source, and copies no file; it returns a result that is no error,
\* with copiedFiles = 0, copiedFolders = 0 and no errors property, and the
\* folder it has created is empty.
C10_EmptySource ==
    (CopyEntered /\ AllOk /\ SourceChildren = {}) =>
        /\ Cardinality(CallsFor("files.create", "s")) <= 1
        /\ \A k \in 1..Len(calls) :
              /\ calls[k].api # "files.copy"
              /\ calls[k].api = "files.create" => calls[k].fileId = "s"
        /\ CopyDone =>
              /\ ~response.isError
              /\ response.text.copiedFiles = 0
              /\ response.text.copiedFolders = 0
              /\ response.text.errors = Undef
              /\ Cardinality(CallsFor("files.create", "s")) = 1
              /\ Len(drive) = Cardinality(Originals) + 1
              /\ ListChildren(drive, response.text.newFolderId) = <<>>
              /\ Lookup(drive, response.text.newFolderId).mimeType = FolderMime

----------------------------------------------------------------------------
(* What the tree listing claims speak of.                                  *)

TreeDone ==
    /\ request.name = "gdrive_list_folder_tree"
    /\ pc = "done"
    /\ Len(stack) > 0

\* the nodes reached from the nodes ids in at most n steps from a folder to
\* its non-trashed children
RECURSIVE ReachableFrom(_, _, _)
ReachableFrom(d, ids, n) ==
    IF n = 0 THEN ids
    ELSE ReachableFrom(d,
            ids \cup {d[i].id : i \in {j \in 1..Len(d) :
                        ~d[j].trashed /\ Range(d[j].parents) \cap ids # {}}},
            n - 1)

\* the non-trashed files and folders reachable under folderId
ReachableUnder(d, folderId) == ReachableFrom(d, {folderId}, Len(d)) \ {folderId}

\* the non-trashed files and folders folderId holds
ChildrenOf(d, folderId) ==
    {d[i].id : i \in {j \in 1..Len(d) : ~d[j].trashed /\ folderId \in Range(d[j].parents)}}

\* the entries of the returned list that carry id
EntriesOf(id) == {k \in 1..Len(response.text.files) : response.text.files[k].id = id}

\* C11: a tree listing whose remote calls succeed returns exactly one entry
\* for every non-trashed file or folder reachable under folderId when
\* recursive is true, for every immediate non-trashed child when recursive
\* is false, whatever the number of children of a folder; totalFiles is the
\* number of entries.
C11_OneEntryForEveryReachableFile ==
    (TreeDone /\ AllOk) =>
        LET expected == IF local.args.recursive
                        THEN ReachableUnder(drive, local.args.folderId)
                        ELSE ChildrenOf(drive, local.args.folderId)
        IN  /\ ~response.isError
            /\ \A id \in expected : Cardinality(EntriesOf(id)) = 1
            /\ \A k \in 1..Len(response.text.files) : response.text.files[k].id \in expected
            /\ response.text.totalFiles = Cardinality(expected)

----------------------------------------------------------------------------
(* What the claims about validation and dispatch speak of.                 *)

InCatalogue == request.name \in Range(Catalogue)

\* the validator of the tool called throws for the arguments of the call
Rejected == InCatalogue /\ ~Validate(request.name, request.arguments).ok

\* no handler has been entered: no locals of any handler, no activation
NoHandlerEntered == local = NoLocal /\ batch = NoBatch /\ stack = <<>>

\* C12: when the validator of the tool called rejects the arguments, no
\* remote call is issued, the handler is not entered, and the response is
\* an isError envelope whose text is "Error: " and the validator's message.
C12_RejectedBeforeAnyRemoteCall ==
    Rejected =>
        /\ calls = <<>>
        /\ NoHandlerEntered
        /\ pc \in {"call", "done"}
        /\ pc = "done" =>
              /\ response.isError
              /\ response.text =
                    "Error: " \o Validate(request.name, request.arguments).message

\* a heading level out of range, rejected by the check in the dispatcher
C12_Witness ==
    /\ request.name = "gdocs_set_heading"
    /\ request.arguments # Undef
    /\ request.arguments.v.headingLevel = Num(7)
    /\ pc = "done"
    /\ response = ErrorEnvelope("Error: Invalid headingLevel: expected number between 1 and 6")
    /\ calls = <<>>

\* the fields the inputSchema of each tool lists under required, with the
\* type it declares for each
Required(name) ==
    CASE name = "gsheets_batch_update" -> [spreadsheetId |-> "string", updates |-> "array"]
      [] name = "gsheets_create_and_populate" -> [title |-> "string", data |-> "array"]
      [] name = "gsheets_append_rows" ->
            [spreadsheetId |-> "string", range |-> "string", values |-> "array"]
      [] name = "gsheets_format_cells" -> [spreadsheetId |-> "string", requests |-> "array"]
      [] name = "gdocs_create_document" -> [title |-> "string"]
      [] name = "gdocs_get_document" -> [documentId |-> "string"]
      [] name \in {"gdocs_insert_text", "gdocs_append_text"} ->
            [documentId |-> "string", text |-> "string"]
      [] name = "gdocs_replace_text" ->
            [documentId |-> "string", find |-> "string", replace |-> "string"]
      [] name = "gdocs_format_text" ->
            [documentId |-> "string", startIndex |-> "number", endIndex |-> "number",
             format |-> "object"]
      [] name = "gdocs_set_heading" ->
            [documentId |-> "string", startIndex |-> "number", endIndex |-> "number",
             headingLevel |-> "number"]
      [] name = "gsheets_set_auth_code" -> [code |-> "string"]
      [] name \in {"gdrive_search", "gdrive_search_content"} -> [query |-> "string"]
      [] name \in {"gdrive_read_file", "gdrive_get_file_info", "gdrive_get_revisions",
                   "gdrive_list_permissions"} -> [fileId |-> "string"]
      [] name = "gdrive_move_file" -> [fileId |-> "string", targetFolderId |-> "string"]
      [] name = "gdrive_batch_move" -> [fileIds |-> "array", targetFolderId |-> "string"]
      [] name = "gdrive_create_folder" -> [name |-> "string"]
      [] name = "gdrive_copy_folder" -> [sourceFolderId |-> "string"]
      [] name = "gdrive_export_file" -> [fileId |-> "string", mimeType |-> "string"]
      [] name = "gdrive_batch_export" -> [fileIds |-> "array", format |-> "string"]
      [] name = "gdrive_list_folder_tree" -> [folderId |-> "string"]
      [] OTHER -> [none |-> "none"]

\* the required fields of the call that are left out or of another type
\* than declared
MissingOrMistyped ==
    IF InCatalogue /\ request.arguments # Undef /\ request.name # "gsheets_get_auth_url"
    THEN {f \in DOMAIN Required(request.name) :
            \/ request.arguments.v[f] = Undef
            \/ request.arguments.v[f].t # Required(request.name)[f]}
    ELSE {}

\* the messages of the validators and of the dispatcher that name field f
MessagesNaming(f) ==
    {"Error: Invalid " \o f \o ": expected " \o what :
        what \in {"non-empty string", "string", "array", "non-empty array", "2D array",
                  "number", "non-negative number", "number greater than startIndex",
                  "object", "one of: pdf, docx, xlsx, pptx", "number between 1 and 6"}}
    \cup (IF f = "code" THEN {"Error: Authorization code is required"} ELSE {})

\* values of each declared type a caller can give
Repairs(type) ==
    CASE type = "string" -> {Str("f1"), Str("pdf")}
      [] type = "number" -> {Num(3), Num(9)}
      [] type = "array" -> {Arr(<<GoodUpdate>>)}
      [] type = "object" -> {Bold}

\* field f is all that is wrong with the call: with a value of the declared
\* type in its place the validator accepts the arguments
OnlyFault(f) ==
    \E b \in Repairs(Required(request.name)[f]) :
        Validate(request.name, Obj([request.arguments.v EXCEPT ![f] = b])).ok

\* C13: a call that leaves out a field its tool declares as required, or
\* gives it a value of another type than declared (nothing else being
\* wrong with the call), does not reach the handler and is answered with
\* isError and a message naming that field.
C13_RequiredFieldsAreEnforced ==
    \A f \in MissingOrMistyped :
        OnlyFault(f) =>
            /\ NoHandlerEntered
            /\ calls = <<>>
            /\ pc = "done" => response.isError /\ response.text \in MessagesNaming(f)

\* the call is of tool name, leaves out the optional field f, and has
\* passed validation
Omitted(name, f) ==
    /\ request.name = name
    /\ request.arguments # Undef
    /\ request.arguments.v[f] = Undef
    /\ local # NoLocal

\* the remote calls of kind api issued so far
CallsOf(api) == {k \in 1..Len(calls) : calls[k].api = api}

\* C14: when the optional field is left out, the validated request carries
\* the documented default and the remote calls are issued with it: pageSize
\* 10 (gdrive_search), maxResults 100 (gdrive_search_content) and 20
\* (gdrive_get_revisions) as the page size of the listing, sheetTitle
\* "Sheet1" (gsheets_create_and_populate) as the title of the sheet and in
\* the range written, recursive true and includeMetadata false
\* (gdrive_list_folder_tree) as the sub-folders listed and the fields asked.
C14_DefaultsAreForwarded ==
    /\ Omitted("gdrive_search", "pageSize") =>
          /\ local.args.pageSize = Num(10)
          /\ \A k \in CallsOf("files.list") : calls[k].body.pageSize = Num(10)
    /\ Omitted("gdrive_search_content", "maxResults") =>
          /\ local.args.maxResults = Num(100)
          /\ \A k \in CallsOf("files.list") : calls[k].body.pageSize = Num(100)
    /\ Omitted("gdrive_get_revisions", "maxResults") =>
          /\ local.args.maxResults = Num(20)
          /\ \A k \in CallsOf("revisions.list") : calls[k].body.pageSize = Num(20)
    /\ Omitted("gsheets_create_and_populate", "sheetTitle") =>
          /\ local.args.sheetTitle = Str("Sheet1")
          /\ \A k \in CallsOf("sheets.create") : calls[k].body.sheetTitle = Str("Sheet1")
          /\ \A k \in CallsOf("sheets.values.update") : calls[k].body.range = "Sheet1!A1"
    /\ Omitted("gdrive_list_folder_tree", "includeMetadata") =>
          /\ local.args.includeMetadata = FALSE
          /\ \A k \in CallsOf("files.list") :
                calls[k].body.fields = "files(id, name, mimeType)"
    /\ Omitted("gdrive_list_folder_tree", "recursive") =>
          /\ local.args.recursive = TRUE
          /\ (pc = "done" /\ AllOk) =>
                \A k \in 1..Len(response.text.files) :
                    response.text.files[k].type = FolderMime =>
                        \E j \in CallsOf("files.list") :
                            calls[j].fileId = response.text.files[k].id

\* a content search without maxResults has listed with page size 100
C14_Witness ==
    /\ Omitted("gdrive_search_content", "maxResults")
    /\ pc = "done"
    /\ ~response.isError
    /\ \E k \in CallsOf("files.list") :
          calls[k].outcome = "ok" /\ calls[k].body.pageSize = Num(100)

\* the format argument of the call is absent or outside the closed set
FormatOutsideTheSet ==
    \/ request.arguments = Undef
    \/ request.arguments.v.format \notin
          {Str("pdf"), Str("docx"), Str("xlsx"), Str("pptx")}

\* the MIME type documented for each export format
DocumentedMime ==
    [pdf |-> "application/pdf",
     docx |-> "application/vnd.openxmlformats-officedocument.wordprocessingml.document",
     xlsx |-> "application/vnd.openxmlformats-officedocument.spreadsheetml.sheet",
     pptx |-> "application/vnd.openxmlformats-officedocument.presentationml.presentation"]

\* C15: gdrive_batch_export with a format outside {pdf, docx, xlsx, pptx},
\* a missing format included, never issues a remote call and ends in an
\* isError envelope, whatever the list of file ids; with a format of the
\* set, every export call carries the MIME type of that format.
C15_ExportFormatIsChecked ==
    request.name = "gdrive_batch_export" =>
        IF FormatOutsideTheSet
        THEN /\ calls = <<>>
             /\ pc \in {"call", "done"}
             /\ pc = "done" => response.isError
        ELSE \A k \in 1..Len(calls) :
                /\ calls[k].api = "files.export"
                /\ calls[k].body.mimeType = DocumentedMime[request.arguments.v.format.v]

\* two files were exported as docx, each call with the docx MIME type
C15_Witness ==
    /\ request.name = "gdrive_batch_export"
    /\ request.arguments # Undef
    /\ request.arguments.v.format = Str("docx")
    /\ pc = "done"
    /\ Len(calls) = 2
    /\ \A k \in 1..2 : calls[k].body.mimeType = DocumentedMime["docx"]

\* an export without a format was rejected, its list of file ids being valid
C15_WitnessRejected ==
    /\ request.name = "gdrive_batch_export"
    /\ request.arguments # Undef
    /\ request.arguments.v.format = Undef
    /\ IsArray(request.arguments.v.fileIds)
    /\ Len(request.arguments.v.fileIds.v) = 2
    /\ pc = "done"
    /\ response.isError

\* the invocation has returned: "done" is the position a handler or the
\* dispatch function reaches by returning its response envelope
Answered == pc = "done"

CaughtValidationOrRemote == Rejected \/ FailedCalls # {}

\* C17 as stated: the response has isError exactly when an exception of
\* argument validation or of a remote call was caught while serving the call.
C17_IsErrorIffCaught ==
    pc = "done" => (response.isError <=> CaughtValidationOrRemote)

ReadableMimes == {DocumentMime, SpreadsheetMime, "text/plain", "application/json"}

\* the own code of the handler threw inside its try block: the type
\* gdrive_read_file found is none it reads, a request of
\* gsheets_format_cells has no A1 range or no format, the content of
\* gdocs_create_document has no trim method
HandlerThrew ==
    /\ local # NoLocal
    /\ \/ /\ request.name = "gdrive_read_file"
          /\ Len(calls) = 1
          /\ local.got.mimeType \notin ReadableMimes
       \/ /\ request.name = "gsheets_format_cells"
          /\ MapRequests(local.args.spreadsheetId.v, local.args.requests.v, 1, <<>>).api = "throw"
       \/ /\ request.name = "gdocs_create_document"
          /\ Len(calls) = 1
          /\ Truthy(local.args.content)
          /\ ~IsString(local.args.content)

\* a remote call failed outside every per-item try block: none of the batch
\* tools, in a folder copy the lookup, the creation and the listing of the
\* outermost activation, in the other tools any call
FailedOutsideItems ==
    CASE request.name \in BatchTools -> FALSE
      [] request.name = "gdrive_copy_folder" ->
            \E k \in FailedCalls : calls[k].depth = 1 /\ calls[k].api # "files.copy"
      [] OTHER -> FailedCalls # {}

\* an exception reached the catch of the dispatch function or the outermost
\* catch of the handler called
ReachedOuterCatch ==
    \/ ~InCatalogue
    \/ Rejected
    \/ HandlerThrew
    \/ FailedOutsideItems

\* C17 amended: the response has isError exactly when an exception reached
\* the catch of the dispatch function (a validator, an inline check or the
\* default case threw) or the outermost catch of the handler called (a
\* remote call outside every per-item try block failed, or the handler's own
\* code threw); a failure caught per item by a batch tool or inside a nested
\* activation of the folder copy leaves the response without isError.
C17_IsErrorIffOuterCatch ==
    pc = "done" => (response.isError <=> ReachedOuterCatch)

\* a file of a type gdrive_read_file does not read: isError although every
\* remote call succeeded and the arguments were valid
C17_Witness ==
    /\ pc = "done"
    /\ request.name = "gdrive_read_file"
    /\ ~Rejected
    /\ Len(calls) = 1
    /\ AllOk
    /\ response.isError

\* C18: a call of a name outside the catalogue issues no remote call and
\* returns the envelope of every failure of the dispatch function: one text,
\* isError, the text holding "Unknown tool: " and the name called.
C18_UnknownToolIsAnError ==
    ~InCatalogue =>
        /\ calls = <<>>
        /\ NoHandlerEntered
        /\ pc \in {"call", "done"}
        /\ pc = "done" =>
              /\ response.isError
              /\ response.text = "Error: " \o "Unknown tool: " \o request.name
              /\ response = DispatchError("Unknown tool: " \o request.name)

\* the name of a tool of the catalogue in capitals was called and answered
C18_Witness ==
    /\ request.name = "GDRIVE_SEARCH"
    /\ pc = "done"
    /\ response.isError
    /\ calls = <<>>

\* the remote calls of invocation i, by position in the log
CallsOfInvocation(i) == {k \in 1..Len(calls) : calls[k].invocation = i}

\* C19: the server processes one invocation at a time: every remote call
\* of the first invocation is in the log before any of the second.
C19_OneInvocationAtATime ==
    \A j \in CallsOfInvocation(1), k \in CallsOfInvocation(2) : j < k

\* C20: after construction the credentials of this.auth are never changed:
\* whatever calls the server has answered, they are the ones the constructor
\* set from the environment.
C20_CredentialsNeverChange == auth = EnvCredentials

----------------------------------------------------------------------------
(* What the claims about the A1 translation speak of.                      *)

\* a1ToGridRange has been called and has returned or thrown
A1Called == pc \in {"a1.returned", "a1.thrown"}

GridRange(startRowIndex, endRowIndex, startColumnIndex, endColumnIndex) ==
    [startRowIndex |-> startRowIndex, endRowIndex |-> endRowIndex,
     startColumnIndex |-> startColumnIndex, endColumnIndex |-> endColumnIndex]

\* the cells of the columns up to MaxCol and the rows up to MaxRow, as
\* <<column index, row number>>, columns numbered A = 0, ..., Z = 25, AA = 26
Cells == (0..MaxCol) \X (0..MaxRow)

\* the cell a text is the name of
CellNamed ==
    [t \in {Cell(cell[1], cell[2]) : cell \in Cells} |->
        CHOOSE cell \in Cells : Cell(cell[1], cell[2]) = t]

\* the two cells of a range "<cell>:<cell>"
ColonAt(s) == CHOOSE j \in 1..Len(s) : s[j] = ":"
StartCell(s) == CellNamed[SubSeq(s, 1, ColonAt(s) - 1)]
EndCell(s) == CellNamed[SubSeq(s, ColonAt(s) + 1, Len(s))]

\* C21: a1ToGridRange maps "<c1><r1>:<c2><r2>" to startRowIndex r1 - 1,
\* endRowIndex r2, startColumnIndex idx(c1) and endColumnIndex idx(c2) + 1,
\* idx numbering the columns A = 0, ..., Z = 25, AA = 26, ...; "A1:C3" gives
\* rows [0,3) and columns [0,3), "B2:B2" one row and one column.
C21_A1ToGridRange ==
    (A1Called /\ a1Range \in CellRanges) =>
        /\ gridRange.ok
        /\ gridRange.value =
              GridRange(StartCell(a1Range)[2] - 1, EndCell(a1Range)[2],
                        StartCell(a1Range)[1], EndCell(a1Range)[1] + 1)
        /\ a1Range = <<"A", "1", ":", "C", "3">> => gridRange.value = GridRange(0, 3, 0, 3)
        /\ a1Range = <<"B", "2", ":", "B", "2">> => gridRange.value = GridRange(1, 2, 1, 2)
        /\ a1Range = <<"Z", "1", ":", "A", "A", "1">> => gridRange.value = GridRange(0, 1, 25, 27)

\* from column Z to column AA, rows 9 to 10
C21_Witness ==
    /\ pc = "a1.returned"
    /\ a1Range = <<"Z", "9", ":", "A", "A", "1", "0">>
    /\ gridRange.value = GridRange(8, 10, 25, 27)

----------------------------------------------------------------------------
(* What the claims about reading and moving speak of.                      *)

ReadApis == {"files.list", "files.get", "docs.get", "permissions.list"}

\* the same read-only operation was called twice with the same arguments
\* and both calls have returned
ReadTwice ==
    /\ request.name \in ReadOnlyTools
    /\ second.request = request
    /\ pc = "done"
    /\ second.pc = "done"

MoveTools == {"gdrive_move_file", "gdrive_batch_move"}

\* a move that passed validation
MoveEntered ==
    /\ request.name \in MoveTools
    /\ IF request.name = "gdrive_batch_move" THEN batch.i > 0 ELSE local # NoLocal

MoveTarget == request.arguments.v.targetFolderId.v

\* the drive before the call
DriveBefore == IF request.name = "gdrive_batch_move" THEN BatchDrive ELSE ToolsDrive

\* the earlier updates of the same file that the service carried out
MovedBefore(k) ==
    {j \in 1..(k - 1) : /\ calls[j].api = "files.update"
                        /\ calls[j].fileId = calls[k].fileId
                        /\ calls[j].outcome = "ok"}

\* the parents of the file of call k when the call was issued
ParentsAt(k) ==
    IF MovedBefore(k) # {} THEN <<MoveTarget>>
    ELSE Lookup(DriveBefore, calls[k].fileId).parents

\* C23: a move (gdrive_move_file, each item of gdrive_batch_move) fetches
\* the parents of the file and then issues one update that adds
\* targetFolderId and removes every parent the fetch returned; no update
\* follows a failed fetch; no other writer being there, the parents of a
\* file moved with success are exactly targetFolderId.
C23_MoveIsFetchThenOneUpdate ==
    MoveEntered =>
        \A k \in 1..Len(calls) :
            /\ calls[k].api \in {"files.get", "files.update"}
            /\ calls[k].api = "files.update" =>
                  /\ k > 1
                  /\ calls[k - 1].api = "files.get"
                  /\ calls[k - 1].fileId = calls[k].fileId
                  /\ calls[k - 1].outcome = "ok"
                  /\ calls[k].body.addParents = MoveTarget
                  /\ calls[k].body.removeParents = ParentsAt(k)
                  /\ calls[k].outcome = "ok" =>
                        Lookup(drive, calls[k].fileId).parents = <<MoveTarget>>
            /\ (calls[k].api = "files.get" /\ k < Len(calls)) =>
                  IF calls[k].outcome = "ok"
                  THEN calls[k + 1].api = "files.update" /\ calls[k + 1].fileId = calls[k].fileId
                  ELSE calls[k + 1].api = "files.get"

\* a file with two parents was moved: both were removed, the target is its
\* only parent
C23_Witness ==
    /\ MoveEntered
    /\ pc = "done"
    /\ \E k \in 1..Len(calls) :
          /\ calls[k].api = "files.update"
          /\ calls[k].outcome = "ok"
          /\ calls[k].fileId = "f2"
          /\ calls[k].body.removeParents = <<"p1", "p2">>
    /\ Lookup(drive, "f2").parents = <<"t">>

----------------------------------------------------------------------------
(* What the claim about calls in flight speaks of.                         *)

\* every item a batch call has not finished, fetched or exported at once
InFlight_FanOut ==
    CASE pc \in {"move.get", "move.update"} ->
            {[api |-> "files.get", fileId |-> batch.fileIds[j]] : j \in batch.i..Len(batch.fileIds)}
      [] pc = "export" ->
            {[api |-> "files.export", fileId |-> batch.fileIds[j]] : j \in batch.i..Len(batch.fileIds)}
      [] OTHER -> {}

\* the remote calls the invocation has issued and not seen return: the one
\* its handler is suspended at, by the position of the handler
InFlight ==
    CASE pc = "move.get" -> {[api |-> "files.get", fileId |-> batch.fileIds[batch.i]]}
      [] pc = "move.update" -> {[api |-> "files.update", fileId |-> batch.fileIds[batch.i]]}
      [] pc = "export" -> {[api |-> "files.export", fileId |-> batch.fileIds[batch.i]]}
      [] pc = "copy.get" -> {[api |-> "files.get", fileId |-> Top(stack).sourceFolderId]}
      [] pc = "copy.create" -> {[api |-> "files.create", fileId |-> Top(stack).sourceFolderId]}
      [] pc = "copy.list" -> {[api |-> "files.list", fileId |-> Top(stack).sourceFolderId]}
      [] pc = "copy.file" ->
            {[api |-> "files.copy", fileId |-> Top(stack).listing[Top(stack).k].id]}
      [] pc = "tree.list" -> {[api |-> "files.list", fileId |-> Top(stack).folderId]}
      [] pc = "tool.await" ->
            LET step == Steps(request.name, local.args, local.got)[local.step + 1]
            IN  {[api |-> step.api, fileId |-> step.fileId]}
      [] OTHER -> {}

----------------------------------------------------------------------------
(* What the claim about the paths of the tree listing speaks of.           *)

\* the names from the child of folder root down to the node id, joined by "/"
RECURSIVE PathBelow(_, _, _)
PathBelow(d, root, id) ==
    LET node == Lookup(d, id) IN
    IF node.parents[1] = root THEN node.name
    ELSE PathBelow(d, root, node.parents[1]) \o "/" \o node.name

\* the entries of the returned list that lie below the folder of entry k
EntriesBelow(k) ==
    {j \in 1..Len(response.text.files) :
        response.text.files[j].id \in ReachableUnder(drive, response.text.files[k].id)}

\* C25: in the result of gdrive_list_folder_tree the path of every entry is
\* the names from the child of the listed folder down to the entry, joined
\* by "/" (the name alone for a child of the listed folder, never the name
\* of the listed folder), and the list is in depth-first pre-order: the
\* entries below a folder follow its entry directly, before its next sibling.
C25_PathsAndPreOrder ==
    (TreeDone /\ ~response.isError) =>
        \A k \in 1..Len(response.text.files) :
            /\ response.text.files[k].path =
                  PathBelow(drive, local.args.folderId, response.text.files[k].id)
            /\ EntriesBelow(k) = (k + 1)..(k + Cardinality(EntriesBelow(k)))

\* folder a with file or folder b in it, and c next to a: a, a/b, c
C25_Witness ==
    /\ TreeDone
    /\ ~response.isError
    /\ Len(response.text.files) = 3
    /\ response.text.files[1].path = "a"
    /\ response.text.files[2].path = "a/b"
    /\ response.text.files[3].path = "c"

----------------------------------------------------------------------------
(* What the claim about the end of the recursion speaks of.                *)

\* the drive as it was before the call: without what the run has created
DriveAsFound == SelectSeq(drive, LAMBDA node : node.id \notin CreatedIds)

\* the folders of the tree the call is about: its root and the non-trashed
\* folders below it, a finite tree without cycles in every drive of the model
FoldersOfTree(root) ==
    {root} \cup {id \in ReachableUnder(DriveAsFound, root) :
                    Lookup(DriveAsFound, id).mimeType = FolderMime}

\* C26: on a finite folder tree without cycles a folder copy visits each
\* folder of the tree once and then returns: it lists no folder outside the
\* tree and none twice, it never has more activations than the tree has
\* folders, and it does not recurse without end.
C26_EachFolderOnce ==
    (CopyEntered /\ Exists(DriveAsFound, "s")) =>
        /\ pc # "deeper"
        /\ Len(stack) <= Cardinality(FoldersOfTree("s"))
        /\ \A k \in 1..Len(calls) :
              calls[k].api = "files.list" =>
                  /\ calls[k].fileId \in FoldersOfTree("s")
                  /\ Cardinality(CallsFor("files.list", calls[k].fileId)) = 1

----------------------------------------------------------------------------
(* What the claim about formatting requests with a malformed range speaks  *)
(* of.                                                                     *)

\* a formatting call that passed validation
FormatEntered == request.name = "gsheets_format_cells" /\ local # NoLocal

RequestsOfCall == request.arguments.v.requests.v

\* a text of the form <letters><digits>:<letters><digits>, among the cells of
\* the columns up to MaxCol and the rows up to MaxRow
NamesCells(text) ==
    \E k \in 1..Len(text) :
        /\ text[k] = ":"
        /\ SubSeq(text, 1, k - 1) \in DOMAIN CellNamed
        /\ SubSeq(text, k + 1, Len(text)) \in DOMAIN CellNamed

\* the requests whose range is a text that is not of that form
Malformed(requests) ==
    {i \in 1..Len(requests) :
        /\ IsString(requests[i].v.range)
        /\ ~NamesCells(requests[i].v.range.v)}

\* the requests with a range of that form and with a format
WellFormed(requests) ==
    {i \in 1..Len(requests) :
        /\ IsString(requests[i].v.range)
        /\ NamesCells(requests[i].v.range.v)
        /\ requests[i].v.format # Undef}

InvalidRangeText(request_) ==
    "Error formatting cells: Error: Invalid A1 range: " \o Text(request_.v.range.v)

\* the texts of the failures of the runtime in the callback
CallbackFailureTexts ==
    {"Error formatting cells: TypeError: " \o m :
        m \in {"Cannot read properties of undefined (reading 'match')",
               "a1Range.match is not a function",
               "Cannot convert undefined or null to object"}}

\* the claim as the specification words it: whenever some request has a
\* malformed range, the response is an error with an "Invalid A1 range"
\* message and no batchUpdate is issued
C27_AnyMalformedRangeIsInvalidA1 ==
    (FormatEntered /\ Malformed(RequestsOfCall) # {}) =>
        /\ CallsOf("sheets.batchUpdate") = {}
        /\ pc # "tool.await"
        /\ pc = "done" =>
              /\ response.isError
              /\ \E i \in Malformed(RequestsOfCall) :
                    response.text = InvalidRangeText(RequestsOfCall[i])

\* C27: gsheets_format_cells with a request whose range is malformed returns
\* an isError envelope and issues no batchUpdate, even when other requests
\* are well-formed, so a malformed range never reaches the service as a grid
\* range of any size; the text is "Error formatting cells: Error: Invalid A1
\* range: <range>" for the first malformed range when every request before
\* it is well-formed and has a format, and otherwise the text of the
\* failure of an earlier request.
C27_MalformedRangeIsAnError ==
    (FormatEntered /\ Malformed(RequestsOfCall) # {}) =>
        LET first == CHOOSE i \in Malformed(RequestsOfCall) :
                        \A j \in Malformed(RequestsOfCall) : i <= j
        IN  /\ CallsOf("sheets.batchUpdate") = {}
            /\ pc # "tool.await"
            /\ pc = "done" =>
                  /\ response.isError
                  /\ IF 1..(first - 1) \subseteq WellFormed(RequestsOfCall)
                     THEN response.text = InvalidRangeText(RequestsOfCall[first])
                     ELSE response.text \in CallbackFailureTexts

\* a well-formed request, then one whose range has no colon
C27_Witness ==
    /\ FormatEntered
    /\ pc = "done"
    /\ Len(RequestsOfCall) = 2
    /\ WellFormed(RequestsOfCall) = {1}
    /\ RequestsOfCall[2].v.range = Str(<<"A", "1", "B", "2">>)
    /\ response = ErrorEnvelope("Error formatting cells: Error: Invalid A1 range: A1B2")
    /\ calls = <<>>

\* a request with a range and no format, then one whose range is malformed
C27_EarlierFailureWitness ==
    /\ FormatEntered
    /\ pc = "done"
    /\ Malformed(RequestsOfCall) = {2}
    /\ response.isError
    /\ response.text = "Error formatting cells: TypeError: Cannot convert undefined or null to object"

----------------------------------------------------------------------------
(* What the claim about the rectangles of the A1 translation speaks of.    *)

\* C28: every range a1ToGridRange accepts yields a zero-based, half-open,
\* non-empty rectangle, 0 <= startRowIndex < endRowIndex and
\* 0 <= startColumnIndex < endColumnIndex, row number 0 and ranges whose end
\* precedes their start included.
C28_AcceptedIsNonEmptyRectangle ==
    (A1Called /\ gridRange.ok) =>
        /\ 0 <= gridRange.value.startRowIndex
        /\ gridRange.value.startRowIndex < gridRange.value.endRowIndex
        /\ 0 <= gridRange.value.startColumnIndex
        /\ gridRange.value.startColumnIndex < gridRange.value.endColumnIndex

\* row number 0 is accepted and starts the rectangle above the sheet
C28_RowZero ==
    /\ pc = "a1.returned"
    /\ a1Range = <<"A", "0", ":", "B", "1">>
    /\ gridRange.value = GridRange(-1, 1, 0, 2)

\* a range from C3 back to A1 is accepted and ends before it starts
C28_EndBeforeStart ==
    /\ pc = "a1.returned"
    /\ a1Range = <<"C", "3", ":", "A", "1">>
    /\ gridRange.value = GridRange(2, 1, 2, 1)

----------------------------------------------------------------------------
(* What the claim about calls that follow the declared schema speaks of.   *)

\* the formats the inputSchema of gdrive_batch_export enumerates
DeclaredFormats == {"pdf", "docx", "xlsx", "pptx"}

\* value v of required field f of tool name is non-empty, of the type the
\* inputSchema declares and within the bounds it declares: the minimum and
\* maximum of headingLevel, the enum of the export format; a list of file
\* ids is not empty, another array holds items as the tool expects them
Conforms(name, f, v) ==
    CASE Required(name)[f] = "string" ->
            /\ IsString(v)
            /\ v.v # ""
            /\ (name = "gdrive_batch_export" /\ f = "format") => v.v \in DeclaredFormats
      [] Required(name)[f] = "number" ->
            /\ v.t = "number"
            /\ f = "headingLevel" => v.v \in 1..6
      [] Required(name)[f] = "object" -> v.t = "object"
      [] Required(name)[f] = "array" ->
            /\ IsArray(v)
            /\ IF f = "fileIds"
               THEN v.v # <<>>
               ELSE v = GoodArguments(name)[f]

\* the call supplies every field its tool declares as required, each with
\* a conforming value, and no other field; the indices of a text range are
\* those of a range that is not empty
SuppliesRequired ==
    /\ InCatalogue
    /\ request.name # "gsheets_get_auth_url"
    /\ request.arguments # Undef
    /\ "startIndex" \in DOMAIN request.arguments.v =>
          /\ request.arguments.v.startIndex.t = "number"
          /\ request.arguments.v.endIndex.t = "number"
          /\ 0 <= request.arguments.v.startIndex.v
          /\ request.arguments.v.startIndex.v < request.arguments.v.endIndex.v
    /\ \A f \in DOMAIN request.arguments.v :
          IF f \in DOMAIN Required(request.name)
          THEN Conforms(request.name, f, request.arguments.v[f])
          ELSE request.arguments.v[f] = Undef

\* C29: for every listed tool, an argument object that supplies every field
\* the inputSchema marks as required, with non-empty values of the declared
\* types and within the declared bounds, passes validation and reaches the
\* handler; a gdocs_set_heading call with documentId, startIndex, endIndex
\* and headingLevel in 1..6 is not rejected.
C29_RequiredArgumentsReachHandler ==
    (SuppliesRequired /\ pc # "call") => ~NoHandlerEntered

\* the heading call of the claim is rejected for the format it need not give
C29_HeadingRejected ==
    /\ request = [name |-> "gdocs_set_heading",
                  arguments |-> Obj([documentId |-> Str("doc"), startIndex |-> Num(0),
                                     endIndex |-> Num(7), format |-> Undef,
                                     headingLevel |-> Num(3)])]
    /\ SuppliesRequired
    /\ pc = "done"
    /\ NoHandlerEntered
    /\ calls = <<>>
    /\ response = ErrorEnvelope("Error: Invalid format: expected object")

\* the other tools: such a call reaches its handler
C29_OtherToolsReachHandler ==
    (SuppliesRequired /\ pc # "call" /\ request.name # "gdocs_set_heading") =>
        ~NoHandlerEntered

----------------------------------------------------------------------------
(* What the claim about the listing and the dispatcher speaks of.          *)

\* the call has been dispatched: the switch has taken a case
Dispatched == pc # "call"

\* the default case answered the call
AnsweredUnknownTool ==
    /\ pc = "done"
    /\ response.isError
    /\ response.text = "Error: Unknown tool: " \o request.name

\* a case of the switch took the call: its handler is at work or the call
\* was answered, by the validator of the case or by the handler, and not by
\* the default case
Routed ==
    /\ Dispatched
    /\ ~NoHandlerEntered \/ pc = "done"
    /\ ~AnsweredUnknownTool

\* C30: the names of the listing are the names the dispatcher routes to a
\* handler: a call of a listed tool is routed and never answered "Unknown
\* tool", a call of a name that is not listed is answered "Unknown tool" and
\* routed to no handler.
C30_ListingAgreesWithDispatcher ==
    (tools # NoTools /\ Dispatched) =>
        IF request.name \in Range(tools)
        THEN Routed
        ELSE AnsweredUnknownTool /\ NoHandlerEntered /\ calls = <<>>

\* the last tool of the listing was called after the listing and answered
C30_Witness ==
    /\ Len(tools) = 26
    /\ request.name = tools[26]
    /\ request.name = "gdrive_list_permissions"
    /\ pc = "done"
    /\ ~response.isError
    /\ Len(calls) = 1

\* a name in upper case is not listed and is answered by the default case
C30_WitnessUnlisted ==
    /\ tools # NoTools
    /\ request.name = "GDRIVE_SEARCH"
    /\ AnsweredUnknownTool

====
